---- MODULE Spec2Model ----
(***************************************************************************)
(* Row-level access control of the Pacific EMIS disability-inclusive       *)
(* education application: role helpers, school affiliation, effective      *)
(* student ownership, the access decision functions, the list filters and  *)
(* the views that create students, enrolments and staff assignments.       *)
(***************************************************************************)
EXTENDS Integers, Sequences, FiniteSets, TLC

\* ------------------------------------------------------------------------
\* Bounds of the model
\* ------------------------------------------------------------------------
MaxDay == 3
MaxGroups == 2
MaxAssignments == 2
MaxEnrolments == 2
MaxStudents == 2
MaxRows == 3

\* ------------------------------------------------------------------------
\* Universe
\* ------------------------------------------------------------------------
Users == {"u1", "u2"}
AnonymousUser == "anonymous"
Schools == {"s1", "s2"}
SchoolYears == {2024, 2025}
Dates == 1..MaxDay
NoDate == 0
OptDates == Dates \cup {NoDate}
NoSchool == "no_school"

GROUP_ADMINS == "Admins"
GROUP_SCHOOL_ADMINS == "School Admins"
GROUP_SCHOOL_STAFF == "School Staff"
GROUP_TEACHERS == "Teachers"
GROUP_SYSTEM_ADMINS == "System Admins"
GROUP_SYSTEM_STAFF == "System Staff"
GroupNames ==
    {GROUP_ADMINS, GROUP_SCHOOL_ADMINS, GROUP_SCHOOL_STAFF, GROUP_TEACHERS,
     GROUP_SYSTEM_ADMINS, GROUP_SYSTEM_STAFF}

VARIABLES
    is_superuser,   \* set of users whose is_superuser flag is set
    groups,         \* user -> set of group names (user.groups)
    school_staff,   \* set of users that have a SchoolStaff profile
    system_user,    \* set of users that have a SystemUser profile
    assignments,    \* SchoolStaffAssignment rows
    students,       \* Student primary keys
    enrolments,     \* StudentSchoolEnrolment rows
    today,          \* timezone.now().date()
    nulls_first,    \* database: NULLs sort first under ORDER BY ... DESC
    auth_group,     \* names of the Group rows that exist
    student_rows,   \* names and birth dates of the students (name matching)
    in_flight,      \* validated forms whose save() has not run yet
    mail_threads,   \* students whose notification thread was started
    outbox,         \* notifications handed to the mail server, in order
    mail_log,       \* students whose notification failure was logged
    request,        \* the call or HTTP request handled last
    response        \* what it returned

vars ==
    <<is_superuser, groups, school_staff, system_user, assignments, students, enrolments,
      today, nulls_first, auth_group, student_rows, in_flight, mail_threads, outbox, mail_log, request, response>>

world == <<is_superuser, groups, school_staff, system_user, assignments, students,
           enrolments, today, nulls_first, auth_group, student_rows, in_flight, mail_threads, outbox, mail_log>>

\* ------------------------------------------------------------------------
\* Role helpers (core/permissions.py)
\* ------------------------------------------------------------------------
is_authenticated(user) == user \in Users

_in_group(user, group_name) ==
    IF ~is_authenticated(user) THEN FALSE ELSE group_name \in groups[user]

_in_any_group(user, group_names) ==
    IF ~is_authenticated(user) THEN FALSE
    ELSE groups[user] \cap group_names # {}

is_admin_no_system_admins(user) ==
    IF ~is_authenticated(user) THEN FALSE
    ELSE IF user \in is_superuser THEN TRUE
    ELSE _in_any_group(user, {GROUP_ADMINS})

is_admin(user) ==
    IF ~is_authenticated(user) THEN FALSE
    ELSE IF user \in is_superuser THEN TRUE
    ELSE _in_any_group(user, {GROUP_ADMINS, GROUP_SYSTEM_ADMINS})

is_school_staff(user) == _in_group(user, GROUP_SCHOOL_STAFF)

is_school_admin(user) == _in_group(user, GROUP_SCHOOL_ADMINS)

is_teacher(user) == _in_group(user, GROUP_TEACHERS)

is_system_staff(user) == _in_group(user, GROUP_SYSTEM_STAFF)

is_admins_group(user) ==
    is_authenticated(user) /\ (user \in is_superuser \/ _in_group(user, GROUP_ADMINS))

is_system_level_user(user) ==
    /\ is_authenticated(user)
    /\ \/ user \in is_superuser
       \/ _in_any_group(user, {GROUP_ADMINS, GROUP_SYSTEM_ADMINS,
                               GROUP_SYSTEM_STAFF})

\* ------------------------------------------------------------------------
\* Model properties (core/models.py)
\* ------------------------------------------------------------------------
SchoolStaffAssignment_is_active_by_date(a) ==
    a.end_date = NoDate \/ a.end_date >= today

SchoolStaffAssignment_is_active(a) == a.end_date = NoDate

StudentSchoolEnrolment_is_active(e) ==
    e.end_date = NoDate \/ e.end_date >= today

student_enrolments(student) == {e \in enrolments : e.student = student}

current_enrolments_open_ended_only(student) ==
    {e \in student_enrolments(student) : e.end_date = NoDate}

current_enrolments(student) ==
    {e \in student_enrolments(student) :
        e.end_date = NoDate \/ e.end_date >= today}

\* ------------------------------------------------------------------------
\* User <-> School helpers
\* ------------------------------------------------------------------------
get_user_schools_by_date(user) ==
    IF ~is_authenticated(user) THEN {}
    ELSE IF user \notin school_staff THEN {}
    ELSE {a.school : a \in {b \in assignments :
              b.school_staff = user /\ SchoolStaffAssignment_is_active_by_date(b)}}

get_user_schools_any_assignment(user) ==
    IF ~is_authenticated(user) THEN {}
    ELSE IF user \notin school_staff THEN {}
    ELSE {a.school : a \in {b \in assignments : b.school_staff = user}}

get_user_schools(user) ==
    IF ~is_authenticated(user) THEN {}
    ELSE IF user \notin school_staff THEN {}
    ELSE {a.school : a \in {b \in assignments :
              b.school_staff = user /\ b.end_date = NoDate}}

\* ------------------------------------------------------------------------
\* Database ordering: ORDER BY <columns> DESC, first row
\* ------------------------------------------------------------------------
\* Rank of a nullable date column under ORDER BY ... DESC: a NULL sorts
\* before every date on a NULLS-FIRST backend (PostgreSQL) and after every
\* date otherwise (SQLite, MySQL).
DescRank(v) ==
    IF v = NoDate THEN (IF nulls_first THEN MaxDay + 1 ELSE 0) ELSE v

\* The rows that come first when sorting by one column, descending.
FirstBy(rows, Rank(_)) == {r \in rows : \A o \in rows : Rank(r) >= Rank(o)}

\* order_by("-school_year__code", "-start_date", "-pk").first()
order_by_year_start_pk_first(rows) ==
    CHOOSE r \in FirstBy(FirstBy(FirstBy(rows, LAMBDA e : e.school_year),
                                 LAMBDA e : DescRank(e.start_date)),
                         LAMBDA e : e.id) : TRUE

\* order_by("-school_year__code", "-created_at", "-id").first()
order_by_year_created_id_first(rows) ==
    CHOOSE r \in FirstBy(FirstBy(FirstBy(rows, LAMBDA e : e.school_year),
                                 LAMBDA e : e.created_at),
                         LAMBDA e : e.id) : TRUE

\* order_by("-id").first()
order_by_id_first(rows) == CHOOSE r \in FirstBy(rows, LAMBDA a : a.id) : TRUE

\* ------------------------------------------------------------------------
\* Student <-> School helpers
\* ------------------------------------------------------------------------
get_effective_student_schools_latest_only(student) ==
    IF student_enrolments(student) = {} THEN {}
    ELSE {order_by_year_start_pk_first(student_enrolments(student)).school}

get_effective_student_schools(student) ==
    LET current == current_enrolments(student)
        all_enrolments == student_enrolments(student)
    IN  IF current # {} THEN {e.school : e \in current}
        ELSE IF all_enrolments = {} THEN {}
        ELSE {order_by_year_start_pk_first(all_enrolments).school}

\* ------------------------------------------------------------------------
\* SchoolStaff permissions.  A SchoolStaff row is named by its user.
\* ------------------------------------------------------------------------
user_has_school_access_to_staff(user, staff) ==
    IF ~is_authenticated(user) THEN FALSE
    ELSE IF user \in is_superuser \/ is_admin(user) THEN TRUE
    ELSE LET user_schools == get_user_schools(user)
             staff_schools == get_user_schools(staff)
         IN  IF user_schools = {} THEN FALSE
             ELSE IF staff_schools = {} THEN FALSE
             ELSE staff_schools \cap user_schools # {}

can_view_staff_any_school_role(user, staff) ==
    IF ~is_authenticated(user) THEN FALSE
    ELSE IF user \in is_superuser \/ is_admin(user) \/ is_system_staff(user)
         THEN TRUE
    ELSE is_school_admin(user) \/ is_school_staff(user) \/ is_teacher(user)

can_view_staff(user, staff) ==
    IF ~is_authenticated(user) THEN FALSE
    ELSE IF user \in is_superuser \/ is_admin(user) \/ is_system_staff(user)
         THEN TRUE
    ELSE IF is_school_admin(user) \/ is_school_staff(user) \/ is_teacher(user)
         THEN user_has_school_access_to_staff(user, staff)
    ELSE FALSE

\* target_school is NoSchool when the caller passes no school.
can_create_staff_assignment(user, target_school) ==
    IF ~is_authenticated(user) THEN FALSE
    ELSE IF user \in is_superuser \/ is_admin(user) THEN TRUE
    ELSE IF is_school_admin(user)
         THEN IF target_school = NoSchool THEN TRUE
              ELSE target_school \in get_user_schools(user)
    ELSE FALSE

can_edit_staff_assignment_any_school(user, assignment) ==
    IF ~is_authenticated(user) THEN FALSE
    ELSE IF user \in is_superuser \/ is_admin(user) THEN TRUE
    ELSE is_school_admin(user)

can_edit_staff_assignment(user, assignment) ==
    IF ~is_authenticated(user) THEN FALSE
    ELSE IF user \in is_superuser \/ is_admin(user) THEN TRUE
    ELSE IF is_school_admin(user)
         THEN assignment.school \in get_user_schools(user)
    ELSE FALSE

can_delete_staff_assignment(user, assignment) ==
    IF ~is_authenticated(user) THEN FALSE
    ELSE IF user \in is_superuser \/ is_admin(user) THEN TRUE
    ELSE IF is_school_admin(user)
         THEN assignment.school \in get_user_schools(user)
    ELSE FALSE

\* ------------------------------------------------------------------------
\* Student permissions
\* ------------------------------------------------------------------------
user_has_school_access_to_student(user, student) ==
    IF ~is_authenticated(user) THEN FALSE
    ELSE IF user \in is_superuser \/ is_admin(user) THEN TRUE
    ELSE LET user_schools == get_user_schools(user)
             student_schools == get_effective_student_schools(student)
         IN  IF user_schools = {} THEN FALSE
             ELSE IF student_schools = {} THEN FALSE
             ELSE student_schools \cap user_schools # {}

can_create_student_with_school_staff(user) ==
    IF ~is_authenticated(user) THEN FALSE
    ELSE IF user \in is_superuser \/ is_admin(user) THEN TRUE
    ELSE is_school_admin(user) \/ is_teacher(user) \/ is_school_staff(user)

can_create_student(user) ==
    IF ~is_authenticated(user) THEN FALSE
    ELSE IF user \in is_superuser \/ is_admin(user) THEN TRUE
    ELSE IF is_school_admin(user) \/ is_teacher(user) THEN TRUE
    ELSE FALSE

\* can_view_student with the school branch open to School Staff alone.
can_view_student_school_staff_only(user, student) ==
    IF ~is_authenticated(user) THEN FALSE
    ELSE IF user \in is_superuser \/ is_admin(user) \/ is_system_staff(user)
         THEN TRUE
    ELSE IF is_school_staff(user)
         THEN user_has_school_access_to_student(user, student)
    ELSE FALSE

can_view_student(user, student) ==
    IF ~is_authenticated(user) THEN FALSE
    ELSE IF user \in is_superuser \/ is_admin(user) \/ is_system_staff(user)
         THEN TRUE
    ELSE IF is_school_admin(user) \/ is_school_staff(user) \/ is_teacher(user)
         THEN user_has_school_access_to_student(user, student)
    ELSE FALSE

can_edit_student(user, student) ==
    IF ~is_authenticated(user) THEN FALSE
    ELSE IF user \in is_superuser \/ is_admin(user) THEN TRUE
    ELSE IF is_school_admin(user) \/ is_teacher(user)
         THEN user_has_school_access_to_student(user, student)
    ELSE FALSE

can_delete_student_like_edit(user, student) == can_edit_student(user, student)

can_delete_student(user, student) ==
    IF ~is_authenticated(user) THEN FALSE
    ELSE user \in is_superuser \/ is_admin(user)

get_allowed_enrolment_schools_any_school(user) ==
    IF ~is_authenticated(user) THEN {}
    ELSE IF user \in is_superuser \/ is_admin(user) THEN Schools
    ELSE IF is_school_admin(user) \/ is_teacher(user) THEN Schools
    ELSE {}

get_allowed_enrolment_schools(user) ==
    IF ~is_authenticated(user) THEN {}
    ELSE IF user \in is_superuser \/ is_admin(user) THEN Schools
    ELSE IF is_school_admin(user) \/ is_teacher(user) THEN get_user_schools(user)
    ELSE {}

\* ------------------------------------------------------------------------
\* Row-level list filters.  A queryset is a set of annotated rows
\* [pk, latest_school_no]; qs.none() is the empty set.
\* ------------------------------------------------------------------------
filter_staff_for_user_roles_only(qs, user) ==
    IF ~is_authenticated(user) THEN {}
    ELSE IF user \in is_superuser \/ is_admin(user) \/ is_system_staff(user)
         THEN qs
    ELSE IF ~(is_school_admin(user) \/ is_school_staff(user) \/ is_teacher(user))
         THEN {}
    ELSE qs

filter_staff_for_user(qs, user) ==
    IF ~is_authenticated(user) THEN {}
    ELSE IF user \in is_superuser \/ is_admin(user) \/ is_system_staff(user)
         THEN qs
    ELSE IF ~(is_school_admin(user) \/ is_school_staff(user) \/ is_teacher(user))
         THEN {}
    ELSE LET user_schools == get_user_schools(user)
         IN  IF user_schools = {} THEN {}
             ELSE {row \in qs : row.latest_school_no \in user_schools}

filter_students_for_user_roles_only(qs, user) ==
    IF ~is_authenticated(user) THEN {}
    ELSE IF user \in is_superuser \/ is_admin(user) \/ is_system_staff(user)
         THEN qs
    ELSE IF ~(is_school_admin(user) \/ is_school_staff(user) \/ is_teacher(user))
         THEN {}
    ELSE qs

filter_students_for_user(qs, user) ==
    IF ~is_authenticated(user) THEN {}
    ELSE IF user \in is_superuser \/ is_admin(user) \/ is_system_staff(user)
         THEN qs
    ELSE IF ~(is_school_admin(user) \/ is_school_staff(user) \/ is_teacher(user))
         THEN {}
    ELSE LET user_schools == get_user_schools(user)
         IN  IF user_schools = {} THEN {}
             ELSE {row \in qs : row.latest_school_no \in user_schools}

\* The annotated list querysets of staff_list and student_list, restricted
\* to the rows `matched` that pass the search and filter parameters.
staff_list_queryset(matched) ==
    {[pk |-> s,
      latest_school_no |->
          LET rows == {a \in assignments : a.school_staff = s}
          IN  IF rows = {} THEN NoSchool ELSE order_by_id_first(rows).school]
     : s \in matched}

student_list_queryset(matched) ==
    {[pk |-> s,
      latest_school_no |->
          LET rows == student_enrolments(s)
          IN  IF rows = {} THEN NoSchool
              ELSE order_by_year_created_id_first(rows).school]
     : s \in matched}

\* ------------------------------------------------------------------------
\* Requests and responses
\* ------------------------------------------------------------------------
NoRequest == [op |-> "none"]
NoResponse == [status |-> "none"]

\* Requests are handled one at a time: a request is taken when none is in
\* progress, and its response is delivered before the next one.
deliver_response ==
    /\ request # NoRequest
    /\ request' = NoRequest
    /\ response' = NoResponse
    /\ UNCHANGED world

NextId(rows) ==
    IF rows = {} THEN 1
    ELSE (CHOOSE r \in rows : \A o \in rows : r.id >= o.id).id + 1

\* ------------------------------------------------------------------------
\* Django admin (core/admin.py): rows are added without row-level checks
\* ------------------------------------------------------------------------
StudentAdmin_add ==
    /\ request = NoRequest
    /\ Cardinality(students) < MaxStudents
    /\ students' = students \cup {Cardinality(students) + 1}
    /\ request' = NoRequest
    /\ response' = NoResponse
    /\ UNCHANGED <<is_superuser, groups, school_staff, system_user, assignments, enrolments,
                   today, nulls_first, auth_group, student_rows, in_flight, mail_threads, outbox, mail_log>>

\* The inline formset validates uq_student_school_year before saving.
StudentSchoolEnrolmentInline_add(years, start_dates, end_dates) ==
    \E student \in students, school \in Schools, school_year \in years,
       start_date \in start_dates, end_date \in end_dates :
        /\ request = NoRequest
        /\ Cardinality(enrolments) < MaxEnrolments
        /\ ~\E e \in enrolments :
               /\ e.student = student
               /\ e.school = school
               /\ e.school_year = school_year
        /\ enrolments' = enrolments \cup
               {[id |-> NextId(enrolments), student |-> student,
                 school |-> school, school_year |-> school_year,
                 start_date |-> start_date, end_date |-> end_date,
                 created_at |-> NextId(enrolments)]}
        /\ request' = NoRequest
        /\ response' = NoResponse
        /\ UNCHANGED <<is_superuser, groups, school_staff, system_user, assignments,
                       students, today, nulls_first, auth_group, student_rows, in_flight, mail_threads, outbox, mail_log>>

\* The inline formset validates uq_school_staff_assignment before saving;
\* rows with a NULL date never collide (NULLs are distinct).
SchoolStaffAssignmentInline_add(start_dates, end_dates) ==
    \E staff \in school_staff, school \in Schools,
       start_date \in start_dates, end_date \in end_dates :
        /\ request = NoRequest
        /\ Cardinality(assignments) < MaxAssignments
        /\ ~\E a \in assignments :
               /\ a.school_staff = staff
               /\ a.school = school
               /\ a.start_date = start_date /\ start_date # NoDate
               /\ a.end_date = end_date /\ end_date # NoDate
        /\ assignments' = assignments \cup
               {[id |-> NextId(assignments), school_staff |-> staff,
                 school |-> school, start_date |-> start_date,
                 end_date |-> end_date]}
        /\ request' = NoRequest
        /\ response' = NoResponse
        /\ UNCHANGED <<is_superuser, groups, school_staff, system_user, students,
                       enrolments, today, nulls_first, auth_group, student_rows, in_flight, mail_threads, outbox, mail_log>>

\* ------------------------------------------------------------------------
\* Calls of the helpers and decision functions
\* ------------------------------------------------------------------------
call_get_effective_student_schools ==
    \E student \in students :
        /\ request = NoRequest
        /\ request' = [op |-> "get_effective_student_schools",
                       student |-> student]
        /\ response' = [status |-> "returned",
                        value |-> get_effective_student_schools(student)]
        /\ UNCHANGED world

\* Callers of the functions: u1 (any role set) and the anonymous user.
Callers == {"u1", AnonymousUser}

call_get_user_schools ==
    \E user \in Callers :
        /\ request = NoRequest
        /\ request' = [op |-> "get_user_schools", user |-> user]
        /\ response' = [status |-> "returned", value |-> get_user_schools(user)]
        /\ UNCHANGED world

call_can_view_staff ==
    \E user \in Callers, staff \in school_staff :
        /\ request = NoRequest
        /\ request' = [op |-> "can_view_staff", user |-> user, staff |-> staff]
        /\ response' = [status |-> "returned",
                        value |-> can_view_staff(user, staff)]
        /\ UNCHANGED world

call_can_create_staff_assignment ==
    \E user \in Callers, target_school \in Schools \cup {NoSchool} :
        /\ request = NoRequest
        /\ request' = [op |-> "can_create_staff_assignment", user |-> user,
                       target_school |-> target_school]
        /\ response' = [status |-> "returned",
                        value |-> can_create_staff_assignment(user, target_school)]
        /\ UNCHANGED world

call_can_edit_staff_assignment ==
    \E user \in Callers, assignment \in assignments :
        /\ request = NoRequest
        /\ request' = [op |-> "can_edit_staff_assignment", user |-> user,
                       assignment |-> assignment]
        /\ response' = [status |-> "returned",
                        value |-> can_edit_staff_assignment(user, assignment)]
        /\ UNCHANGED world

call_can_delete_staff_assignment ==
    \E user \in Callers, assignment \in assignments :
        /\ request = NoRequest
        /\ request' = [op |-> "can_delete_staff_assignment", user |-> user,
                       assignment |-> assignment]
        /\ response' = [status |-> "returned",
                        value |-> can_delete_staff_assignment(user, assignment)]
        /\ UNCHANGED world

call_can_create_student ==
    \E user \in Callers :
        /\ request = NoRequest
        /\ request' = [op |-> "can_create_student", user |-> user]
        /\ response' = [status |-> "returned", value |-> can_create_student(user)]
        /\ UNCHANGED world

call_can_view_student ==
    \E user \in Callers, student \in students :
        /\ request = NoRequest
        /\ request' = [op |-> "can_view_student", user |-> user,
                       student |-> student]
        /\ response' = [status |-> "returned",
                        value |-> can_view_student(user, student)]
        /\ UNCHANGED world

call_can_edit_student ==
    \E user \in Callers, student \in students :
        /\ request = NoRequest
        /\ request' = [op |-> "can_edit_student", user |-> user,
                       student |-> student]
        /\ response' = [status |-> "returned",
                        value |-> can_edit_student(user, student)]
        /\ UNCHANGED world

call_can_delete_student ==
    \E user \in Callers, student \in students :
        /\ request = NoRequest
        /\ request' = [op |-> "can_delete_student", user |-> user,
                       student |-> student]
        /\ response' = [status |-> "returned",
                        value |-> can_delete_student(user, student)]
        /\ UNCHANGED world

call_filter_staff_for_user ==
    \E user \in Callers, matched \in SUBSET school_staff :
        /\ request = NoRequest
        /\ request' = [op |-> "filter_staff_for_user", user |-> user,
                       qs |-> staff_list_queryset(matched)]
        /\ response' = [status |-> "returned",
                        value |-> filter_staff_for_user(
                                      staff_list_queryset(matched), user)]
        /\ UNCHANGED world

call_filter_students_for_user ==
    \E user \in Callers, matched \in SUBSET students :
        /\ request = NoRequest
        /\ request' = [op |-> "filter_students_for_user", user |-> user,
                       qs |-> student_list_queryset(matched)]
        /\ response' = [status |-> "returned",
                        value |-> filter_students_for_user(
                                      student_list_queryset(matched), user)]
        /\ UNCHANGED world

call_SchoolStaffAssignment_is_active ==
    \E assignment \in assignments :
        /\ request = NoRequest
        /\ request' = [op |-> "SchoolStaffAssignment.is_active",
                       assignment |-> assignment]
        /\ response' = [status |-> "returned",
                        value |-> SchoolStaffAssignment_is_active(assignment)]
        /\ UNCHANGED world

call_StudentSchoolEnrolment_is_active ==
    \E enrolment \in enrolments :
        /\ request = NoRequest
        /\ request' = [op |-> "StudentSchoolEnrolment.is_active",
                       enrolment |-> enrolment]
        /\ response' = [status |-> "returned",
                        value |-> StudentSchoolEnrolment_is_active(enrolment)]
        /\ UNCHANGED world

\* ------------------------------------------------------------------------
\* Views (core/views.py)
\* ------------------------------------------------------------------------
\* The school choices of SchoolStaffAssignmentForm for a user.
SchoolStaffAssignmentForm_schools(user) ==
    IF ~is_authenticated(user) THEN {}
    ELSE IF user \in is_superuser \/ is_admin(user) THEN Schools
    ELSE get_user_schools(user)

\* staff_assignment_edit: login_required, then can_edit_staff_assignment on
\* the stored row, then the form, then can_create_staff_assignment on the
\* submitted school.  The form does not hold school_staff, so
\* uq_school_staff_assignment is checked by the database only.
staff_assignment_edit(users, start_dates, end_dates) ==
    \E user \in users, assignment \in assignments, method \in {"GET", "POST"},
       school \in Schools, start_date \in start_dates, end_date \in end_dates :
        /\ request = NoRequest
        /\ request' = [op |-> "staff_assignment_edit", user |-> user,
                       assignment |-> assignment, method |-> method,
                       school |-> school, start_date |-> start_date,
                       end_date |-> end_date]
        /\ IF ~is_authenticated(user)
           THEN /\ response' = [status |-> "redirect_login"]
                /\ UNCHANGED assignments
           ELSE IF ~can_edit_staff_assignment(user, assignment)
           THEN /\ response' = [status |-> "redirect_no_permission"]
                /\ UNCHANGED assignments
           ELSE IF \/ method = "GET"
                   \/ school \notin SchoolStaffAssignmentForm_schools(user)
                   \/ ~can_create_staff_assignment(user, school)
           THEN /\ response' = [status |-> "form"]
                /\ UNCHANGED assignments
           ELSE IF \E a \in assignments \ {assignment} :
                       /\ a.school_staff = assignment.school_staff
                       /\ a.school = school
                       /\ a.start_date = start_date /\ start_date # NoDate
                       /\ a.end_date = end_date /\ end_date # NoDate
           THEN /\ response' = [status |-> "integrity_error"]
                /\ UNCHANGED assignments
           ELSE /\ assignments' = (assignments \ {assignment}) \cup
                       {[assignment EXCEPT !.school = school,
                                           !.start_date = start_date,
                                           !.end_date = end_date]}
                /\ response' = [status |-> "redirect_staff_detail"]
        /\ UNCHANGED <<is_superuser, groups, school_staff, system_user, students,
                       enrolments, today, nulls_first, auth_group, student_rows, in_flight, mail_threads, outbox, mail_log>>
\* staff_detail: login_required, then can_view_staff; a POST adds an
\* assignment when can_create_staff_assignment(user) holds, the form is
\* valid (its school choices depend on the user) and
\* can_create_staff_assignment(user, obj.school) holds.
staff_detail(users, start_dates, end_dates) ==
    \E user \in users, staff \in school_staff, method \in {"GET", "POST"},
       school \in Schools, start_date \in start_dates, end_date \in end_dates :
        /\ request = NoRequest
        /\ request' = [op |-> "staff_detail", user |-> user, staff |-> staff,
                       method |-> method, school |-> school,
                       start_date |-> start_date, end_date |-> end_date]
        /\ IF ~is_authenticated(user)
           THEN /\ response' = [status |-> "redirect_login"]
                /\ UNCHANGED assignments
           ELSE IF ~can_view_staff(user, staff)
           THEN /\ response' = [status |-> "redirect_no_permission"]
                /\ UNCHANGED assignments
           ELSE IF \/ method = "GET"
                   \/ ~can_create_staff_assignment(user, NoSchool)
                   \/ school \notin SchoolStaffAssignmentForm_schools(user)
                   \/ ~can_create_staff_assignment(user, school)
           THEN /\ response' = [status |-> "page"]
                /\ UNCHANGED assignments
           ELSE IF \E a \in assignments :
                       /\ a.school_staff = staff
                       /\ a.school = school
                       /\ a.start_date = start_date /\ start_date # NoDate
                       /\ a.end_date = end_date /\ end_date # NoDate
           THEN /\ response' = [status |-> "integrity_error"]
                /\ UNCHANGED assignments
           ELSE /\ Cardinality(assignments) < MaxAssignments
                /\ assignments' = assignments \cup
                       {[id |-> NextId(assignments), school_staff |-> staff,
                         school |-> school, start_date |-> start_date,
                         end_date |-> end_date]}
                /\ response' = [status |-> "redirect_staff_detail"]
        /\ UNCHANGED <<is_superuser, groups, school_staff, system_user, students,
                       enrolments, today, nulls_first, auth_group, student_rows, in_flight, mail_threads, outbox, mail_log>>

\* staff_assignment_delete: login_required, then
\* can_delete_staff_assignment; a POST deletes the row.
staff_assignment_delete(users) ==
    \E user \in users, assignment \in assignments, method \in {"GET", "POST"} :
        /\ request = NoRequest
        /\ request' = [op |-> "staff_assignment_delete", user |-> user,
                       assignment |-> assignment, method |-> method]
        /\ IF ~is_authenticated(user)
           THEN /\ response' = [status |-> "redirect_login"]
                /\ UNCHANGED assignments
           ELSE IF ~can_delete_staff_assignment(user, assignment)
           THEN /\ response' = [status |-> "redirect_no_permission"]
                /\ UNCHANGED assignments
           ELSE IF method = "GET"
           THEN /\ response' = [status |-> "confirm"]
                /\ UNCHANGED assignments
           ELSE /\ assignments' = assignments \ {assignment}
                /\ response' = [status |-> "redirect_staff_detail"]
        /\ UNCHANGED <<is_superuser, groups, school_staff, system_user, students,
                       enrolments, today, nulls_first, auth_group, student_rows, in_flight, mail_threads, outbox, mail_log>>

\* uq_student_school_year: the database accepts `row` next to `rows` when no
\* other row (another primary key) holds the same (student, school,
\* school_year). The variant below also compares start_date.
uq_student_school_year_and_start_date(rows, row) ==
    \A e \in rows :
        \/ e.id = row.id
        \/ e.student # row.student
        \/ e.school # row.school
        \/ e.school_year # row.school_year
        \/ e.start_date # row.start_date

uq_student_school_year(rows, row) ==
    \A e \in rows :
        \/ e.id = row.id
        \/ e.student # row.student
        \/ e.school # row.school
        \/ e.school_year # row.school_year

\* with transaction.atomic(): `steps` are the database states after each
\* statement of the block, `failed_at` the statement that raised (0: none).
\* The block commits the last state or rolls back to `before`. The variant
\* below keeps what the statements before the failing one wrote.
transaction_autocommit(before, steps, failed_at) ==
    IF failed_at = 0 THEN steps[Len(steps)]
    ELSE IF failed_at = 1 THEN before
    ELSE steps[failed_at - 1]

transaction_atomic(before, steps, failed_at) ==
    IF failed_at = 0 THEN steps[Len(steps)] ELSE before

\* student_new: login_required, then can_create_student, then the intake
\* form whose school choices are get_allowed_enrolment_schools(user); a valid
\* POST creates the student and its first enrolment in one transaction.
student_new(users, years, raises) ==
    \E user \in users, method \in {"GET", "POST"}, school \in Schools,
       school_year \in years, create_raises \in raises :
        /\ request = NoRequest
        /\ request' = [op |-> "student_new", user |-> user, method |-> method,
                       school |-> school, school_year |-> school_year]
        /\ IF ~is_authenticated(user)
           THEN /\ response' = [status |-> "redirect_login"]
                /\ UNCHANGED <<students, enrolments>>
           ELSE IF ~can_create_student(user)
           THEN /\ response' = [status |-> "permission_denied"]
                /\ UNCHANGED <<students, enrolments>>
           ELSE IF method = "GET"
                   \/ school \notin get_allowed_enrolment_schools(user)
           THEN /\ response' = [status |-> "form"]
                /\ UNCHANGED <<students, enrolments>>
           ELSE /\ Cardinality(students) < MaxStudents
                /\ Cardinality(enrolments) < MaxEnrolments
                /\ LET student == Cardinality(students) + 1
                       enrolment ==
                           [id |-> NextId(enrolments), student |-> student,
                            school |-> school, school_year |-> school_year,
                            start_date |-> NoDate, end_date |-> NoDate,
                            created_at |-> NextId(enrolments)]
                       before == [students |-> students,
                                  enrolments |-> enrolments]
                       created == [students |-> students \cup {student},
                                   enrolments |-> enrolments]
                       enrolled == [students |-> students \cup {student},
                                    enrolments |-> enrolments \cup {enrolment}]
                       raised == create_raises
                                 \/ ~uq_student_school_year(enrolments, enrolment)
                       committed ==
                           transaction_atomic(before, <<created, enrolled>>,
                                              IF raised THEN 2 ELSE 0)
                   IN  /\ students' = committed.students
                       /\ enrolments' = committed.enrolments
                       /\ response' =
                              IF raised
                              THEN [status |-> "bad_request",
                                    message |-> "enrolment_exists"]
                              ELSE [status |-> "redirect_student_detail",
                                    student |-> student]
        /\ UNCHANGED <<is_superuser, groups, school_staff, system_user, assignments, today,
                       nulls_first, auth_group, student_rows, in_flight, mail_threads, outbox, mail_log>>

\* student_detail: login_required, then can_view_student.
student_detail(users) ==
    \E user \in users, student \in students :
        /\ request = NoRequest
        /\ request' = [op |-> "student_detail", user |-> user,
                       student |-> student]
        /\ response' =
               IF ~is_authenticated(user) THEN [status |-> "redirect_login"]
               ELSE IF ~can_view_student(user, student)
                    THEN [status |-> "permission_denied"]
               ELSE [status |-> "ok"]
        /\ UNCHANGED world

\* student_enrolment_add: login_required, then can_edit_student, then the
\* enrolment form whose school choices are get_allowed_enrolment_schools(user).
\* The form does not hold the student, so uq_student_school_year is checked
\* by the database only: save() raises IntegrityError on a duplicate.
student_enrolment_add(users, start_dates, end_dates) ==
    \E user \in users, student \in students, method \in {"GET", "POST"},
       school \in Schools, school_year \in SchoolYears,
       start_date \in start_dates, end_date \in end_dates :
        /\ request = NoRequest
        /\ request' = [op |-> "student_enrolment_add", user |-> user,
                       student |-> student, method |-> method,
                       school |-> school, school_year |-> school_year,
                       start_date |-> start_date, end_date |-> end_date]
        /\ IF ~is_authenticated(user)
           THEN /\ response' = [status |-> "redirect_login"]
                /\ UNCHANGED enrolments
           ELSE IF ~can_edit_student(user, student)
           THEN /\ response' = [status |-> "permission_denied"]
                /\ UNCHANGED enrolments
           ELSE IF method = "GET"
                   \/ school \notin get_allowed_enrolment_schools(user)
           THEN /\ response' = [status |-> "form"]
                /\ UNCHANGED enrolments
           ELSE IF ~uq_student_school_year(enrolments,
                       [id |-> NextId(enrolments), student |-> student,
                        school |-> school, school_year |-> school_year,
                        start_date |-> start_date])
           THEN /\ response' = [status |-> "integrity_error"]
                /\ UNCHANGED enrolments
           ELSE /\ Cardinality(enrolments) < MaxEnrolments
                /\ enrolments' = enrolments \cup
                       {[id |-> NextId(enrolments), student |-> student,
                         school |-> school, school_year |-> school_year,
                         start_date |-> start_date, end_date |-> end_date,
                         created_at |-> NextId(enrolments)]}
                /\ response' = [status |-> "redirect_student_detail",
                                student |-> student]
        /\ UNCHANGED <<is_superuser, groups, school_staff, system_user, assignments,
                       students, today, nulls_first, auth_group, student_rows, in_flight, mail_threads, outbox, mail_log>>

\* student_enrolment_edit: login_required, then can_edit_student on the
\* student, then the same form bound to the enrolment.
student_enrolment_edit(users, start_dates, end_dates) ==
    \E user \in users, enrolment \in enrolments, method \in {"GET", "POST"},
       school \in Schools, school_year \in SchoolYears,
       start_date \in start_dates, end_date \in end_dates :
        /\ request = NoRequest
        /\ request' = [op |-> "student_enrolment_edit", user |-> user,
                       student |-> enrolment.student,
                       enrolment |-> enrolment, method |-> method,
                       school |-> school, school_year |-> school_year,
                       start_date |-> start_date, end_date |-> end_date]
        /\ IF ~is_authenticated(user)
           THEN /\ response' = [status |-> "redirect_login"]
                /\ UNCHANGED enrolments
           ELSE IF ~can_edit_student(user, enrolment.student)
           THEN /\ response' = [status |-> "permission_denied"]
                /\ UNCHANGED enrolments
           ELSE IF method = "GET"
                   \/ school \notin get_allowed_enrolment_schools(user)
           THEN /\ response' = [status |-> "form"]
                /\ UNCHANGED enrolments
           ELSE IF ~uq_student_school_year(enrolments,
                       [id |-> enrolment.id, student |-> enrolment.student,
                        school |-> school, school_year |-> school_year,
                        start_date |-> start_date])
           THEN /\ response' = [status |-> "integrity_error"]
                /\ UNCHANGED enrolments
           ELSE /\ enrolments' = (enrolments \ {enrolment}) \cup
                       {[enrolment EXCEPT !.school = school,
                                          !.school_year = school_year,
                                          !.start_date = start_date,
                                          !.end_date = end_date]}
                /\ response' = [status |-> "redirect_student_detail",
                                student |-> enrolment.student]
        /\ UNCHANGED <<is_superuser, groups, school_staff, system_user, assignments,
                       students, today, nulls_first, auth_group, student_rows, in_flight, mail_threads, outbox, mail_log>>

\* student_enrolment_delete: login_required, then can_delete_student on the
\* student; a POST deletes the enrolment.
student_enrolment_delete(users) ==
    \E user \in users, enrolment \in enrolments, method \in {"GET", "POST"} :
        /\ request = NoRequest
        /\ request' = [op |-> "student_enrolment_delete", user |-> user,
                       student |-> enrolment.student,
                       enrolment |-> enrolment, method |-> method]
        /\ IF ~is_authenticated(user)
           THEN /\ response' = [status |-> "redirect_login"]
                /\ UNCHANGED enrolments
           ELSE IF ~can_delete_student(user, enrolment.student)
           THEN /\ response' = [status |-> "permission_denied"]
                /\ UNCHANGED enrolments
           ELSE IF method = "GET"
           THEN /\ response' = [status |-> "confirm"]
                /\ UNCHANGED enrolments
           ELSE /\ enrolments' = enrolments \ {enrolment}
                /\ response' = [status |-> "redirect_student_detail",
                                student |-> enrolment.student]
        /\ UNCHANGED <<is_superuser, groups, school_staff, system_user, assignments,
                       students, today, nulls_first, auth_group, student_rows, in_flight, mail_threads, outbox, mail_log>>

\* ------------------------------------------------------------------------
\* Role management: decision functions that core/views.py and core/forms.py
\* import from core.permissions (the policy table's row "edit group
\* memberships" and the Role Classifier's is_admins_group_specifically)
\* ------------------------------------------------------------------------
can_assign_admins_group(user) ==
    is_authenticated(user) /\ (user \in is_superuser \/ _in_group(user, GROUP_ADMINS))

can_manage_pending_users(user) == is_admin(user)

can_edit_staff(user, staff) ==
    IF ~is_authenticated(user) THEN FALSE
    ELSE IF user \in is_superuser \/ is_admin(user) THEN TRUE
    ELSE IF is_school_admin(user) THEN user_has_school_access_to_staff(user, staff)
    ELSE FALSE

can_edit_staff_groups(user, staff) ==
    IF ~is_authenticated(user) THEN FALSE
    ELSE IF user \in is_superuser \/ is_admin(user) THEN TRUE
    ELSE IF is_school_admin(user) THEN user_has_school_access_to_staff(user, staff)
    ELSE FALSE

can_edit_system_user(user, target) == is_admin(user)

can_edit_system_user_groups(user, target) == is_admin(user)

\* ------------------------------------------------------------------------
\* Role forms (core/forms.py).  A form is given the submitted group
\* selection and yields [valid, groups]: whether is_valid() holds and the
\* cleaned "groups" value.
\* ------------------------------------------------------------------------
SchoolLevelGroups ==
    {GROUP_ADMINS, GROUP_SCHOOL_ADMINS, GROUP_SCHOOL_STAFF, GROUP_TEACHERS}

SystemLevelGroups == {GROUP_ADMINS, GROUP_SYSTEM_ADMINS, GROUP_SYSTEM_STAFF}

\* ModelMultipleChoiceField(required=True) over `choices`; a disabled field
\* takes its value from `initial` and ignores the submitted data.
groups_field(choices, disabled, initial, selected) ==
    LET value == IF disabled THEN initial ELSE selected
    IN  [valid |-> value # {} /\ value \subseteq choices, groups |-> value]

SchoolStaffEditForm_all_groups(user, school_staff_user, selected) ==
    groups_field(SchoolLevelGroups, FALSE, {}, selected)

SchoolStaffEditForm(user, school_staff_user, selected) ==
    LET can_assign_admins ==
            is_authenticated(user)
                /\ (user \in is_superuser \/ is_admins_group(user))
        school_groups ==
            IF can_assign_admins THEN SchoolLevelGroups
            ELSE SchoolLevelGroups \ {GROUP_ADMINS}
        can_edit_groups ==
            /\ is_authenticated(user)
            /\ \/ user \in is_superuser
               \/ is_admins_group(user)
               \/ _in_group(user, GROUP_SYSTEM_ADMINS)
               \/ is_school_admin(user)
    IN  groups_field(school_groups, ~can_edit_groups,
                     groups[school_staff_user] \cap school_groups, selected)

SystemUserEditForm(user, system_user_user, selected) ==
    LET can_assign_admins ==
            is_authenticated(user)
                /\ (user \in is_superuser \/ is_admins_group(user))
        system_groups ==
            IF can_assign_admins THEN SystemLevelGroups
            ELSE SystemLevelGroups \ {GROUP_ADMINS}
        can_edit_groups ==
            /\ is_authenticated(user)
            /\ \/ user \in is_superuser
               \/ is_admins_group(user)
               \/ _in_group(user, GROUP_SYSTEM_ADMINS)
    IN  groups_field(system_groups, ~can_edit_groups,
                     groups[system_user_user] \cap system_groups, selected)

AssignSchoolStaffForm(user, selected) ==
    LET school_groups ==
            IF can_assign_admins_group(user) THEN SchoolLevelGroups
            ELSE SchoolLevelGroups \ {GROUP_ADMINS}
    IN  groups_field(school_groups, FALSE, {}, selected)

AssignSystemUserForm(user, selected) ==
    LET system_groups ==
            IF can_assign_admins_group(user) THEN SystemLevelGroups
            ELSE SystemLevelGroups \ {GROUP_ADMINS}
    IN  groups_field(system_groups, FALSE, {}, selected)

\* staff_edit: login_required, then can_edit_staff; a valid POST replaces
\* the target's school-level groups by the cleaned selection when
\* can_edit_staff_groups holds.
staff_edit(users, selections) ==
    \E user \in users, staff \in school_staff, method \in {"GET", "POST"},
       selected \in selections :
        /\ request = NoRequest
        /\ request' = [op |-> "staff_edit", user |-> user, target |-> staff,
                       method |-> method, selected |-> selected]
        /\ IF ~is_authenticated(user)
           THEN /\ response' = [status |-> "redirect_login"]
                /\ UNCHANGED groups
           ELSE IF ~can_edit_staff(user, staff)
           THEN /\ response' = [status |-> "redirect_no_permission"]
                /\ UNCHANGED groups
           ELSE IF method = "GET" \/ ~SchoolStaffEditForm(user, staff, selected).valid
           THEN /\ response' = [status |-> "form"]
                /\ UNCHANGED groups
           ELSE /\ groups' =
                       IF can_edit_staff_groups(user, staff)
                       THEN [groups EXCEPT ![staff] =
                                (@ \ SchoolLevelGroups) \cup
                                SchoolStaffEditForm(user, staff, selected).groups]
                       ELSE groups
                /\ response' = [status |-> "redirect_staff_detail"]
        /\ UNCHANGED <<is_superuser, school_staff, system_user, assignments,
                       students, enrolments, today, nulls_first, auth_group, student_rows, in_flight, mail_threads, outbox, mail_log>>

\* system_user_edit: login_required, then is_system_level_user, then
\* can_edit_system_user; a valid POST replaces the target's system-level
\* groups when can_edit_system_user_groups holds.
system_user_edit(users, selections) ==
    \E user \in users, target \in system_user, method \in {"GET", "POST"},
       selected \in selections :
        /\ request = NoRequest
        /\ request' = [op |-> "system_user_edit", user |-> user,
                       target |-> target, method |-> method,
                       selected |-> selected]
        /\ IF ~is_authenticated(user)
           THEN /\ response' = [status |-> "redirect_login"]
                /\ UNCHANGED groups
           ELSE IF ~is_system_level_user(user)
           THEN /\ response' = [status |-> "permission_denied"]
                /\ UNCHANGED groups
           ELSE IF ~can_edit_system_user(user, target)
           THEN /\ response' = [status |-> "redirect_no_permission"]
                /\ UNCHANGED groups
           ELSE IF method = "GET" \/ ~SystemUserEditForm(user, target, selected).valid
           THEN /\ response' = [status |-> "form"]
                /\ UNCHANGED groups
           ELSE /\ groups' =
                       IF can_edit_system_user_groups(user, target)
                       THEN [groups EXCEPT ![target] =
                                (@ \ SystemLevelGroups) \cup
                                SystemUserEditForm(user, target, selected).groups]
                       ELSE groups
                /\ response' = [status |-> "redirect_system_user_detail"]
        /\ UNCHANGED <<is_superuser, school_staff, system_user, assignments,
                       students, enrolments, today, nulls_first, auth_group, student_rows, in_flight, mail_threads, outbox, mail_log>>

\* assign_school_staff: login_required, then can_manage_pending_users; a
\* valid POST for a user without a SchoolStaff profile creates the profile
\* and adds the selected groups.
assign_school_staff(users, selections) ==
    \E user \in users, target_user \in Users, method \in {"GET", "POST"},
       selected \in selections :
        /\ request = NoRequest
        /\ request' = [op |-> "assign_school_staff", user |-> user,
                       target |-> target_user, method |-> method,
                       selected |-> selected]
        /\ IF ~is_authenticated(user)
           THEN /\ response' = [status |-> "redirect_login"]
                /\ UNCHANGED <<groups, school_staff>>
           ELSE IF ~can_manage_pending_users(user)
           THEN /\ response' = [status |-> "permission_denied"]
                /\ UNCHANGED <<groups, school_staff>>
           ELSE IF target_user \in school_staff
           THEN /\ response' = [status |-> "redirect_pending_users_list"]
                /\ UNCHANGED <<groups, school_staff>>
           ELSE IF method = "GET" \/ ~AssignSchoolStaffForm(user, selected).valid
           THEN /\ response' = [status |-> "form"]
                /\ UNCHANGED <<groups, school_staff>>
           ELSE /\ school_staff' = school_staff \cup {target_user}
                /\ groups' = [groups EXCEPT ![target_user] =
                                 @ \cup AssignSchoolStaffForm(user, selected).groups]
                /\ response' = [status |-> "redirect_staff_detail"]
        /\ UNCHANGED <<is_superuser, system_user, assignments, students,
                       enrolments, today, nulls_first, auth_group, student_rows, in_flight, mail_threads, outbox, mail_log>>

\* assign_system_user: the same for the SystemUser profile.
assign_system_user(users, selections) ==
    \E user \in users, target_user \in Users, method \in {"GET", "POST"},
       selected \in selections :
        /\ request = NoRequest
        /\ request' = [op |-> "assign_system_user", user |-> user,
                       target |-> target_user, method |-> method,
                       selected |-> selected]
        /\ IF ~is_authenticated(user)
           THEN /\ response' = [status |-> "redirect_login"]
                /\ UNCHANGED <<groups, system_user>>
           ELSE IF ~can_manage_pending_users(user)
           THEN /\ response' = [status |-> "permission_denied"]
                /\ UNCHANGED <<groups, system_user>>
           ELSE IF target_user \in system_user
           THEN /\ response' = [status |-> "redirect_pending_users_list"]
                /\ UNCHANGED <<groups, system_user>>
           ELSE IF method = "GET" \/ ~AssignSystemUserForm(user, selected).valid
           THEN /\ response' = [status |-> "form"]
                /\ UNCHANGED <<groups, system_user>>
           ELSE /\ system_user' = system_user \cup {target_user}
                /\ groups' = [groups EXCEPT ![target_user] =
                                 @ \cup AssignSystemUserForm(user, selected).groups]
                /\ response' = [status |-> "redirect_system_user_detail"]
        /\ UNCHANGED <<is_superuser, school_staff, assignments, students,
                       enrolments, today, nulls_first, auth_group, student_rows, in_flight, mail_threads, outbox, mail_log>>

\* The date changes between two requests.
next_day ==
    /\ request = NoRequest
    /\ today < MaxDay
    /\ today' = today + 1
    /\ UNCHANGED <<is_superuser, groups, school_staff, system_user, assignments, students,
                   enrolments, nulls_first, auth_group, student_rows, in_flight, mail_threads, outbox, mail_log, request, response>>

\* ------------------------------------------------------------------------
\* Effective ownership of a student: the enrolment rows of one database,
\* on any day, on either kind of backend
\* ------------------------------------------------------------------------
InitOwnership ==
    /\ is_superuser = {}
    /\ groups = [u \in Users |-> {}]
    /\ school_staff = {}
    /\ system_user = {}
    /\ assignments = {}
    /\ students = {}
    /\ enrolments = {}
    /\ today \in Dates
    /\ nulls_first \in BOOLEAN
    /\ auth_group = GroupNames
    /\ student_rows = <<>>
    /\ in_flight = {}
    /\ mail_threads = {}
    /\ outbox = <<>>
    /\ mail_log = {}
    /\ request = NoRequest
    /\ response = NoResponse

NextOwnership ==
    \/ StudentAdmin_add
    \/ StudentSchoolEnrolmentInline_add(SchoolYears, OptDates, OptDates)
    \/ call_get_effective_student_schools
    \/ deliver_response

SpecOwnership == InitOwnership /\ [][NextOwnership]_vars

\* Tuple order (school_year code, start_date, pk); an absent start_date is
\* below every date.
LaterEnrolment(a, b) ==
    \/ a.school_year > b.school_year
    \/ /\ a.school_year = b.school_year
       /\ \/ a.start_date > b.start_date
          \/ a.start_date = b.start_date /\ a.id > b.id

\* C4: for a student with no current enrolment but at least one historical
\* one, get_effective_student_schools returns exactly the school of the
\* enrolment that is greatest under (school_year code, start_date, pk),
\* also when some start_date is null.
C4_FallbackIsLatestEnrolment ==
    request.op = "get_effective_student_schools" =>
        LET mine == {e \in enrolments : e.student = request.student}
            current == {e \in mine : e.end_date = NoDate \/ e.end_date >= today}
        IN  (current = {} /\ mine # {}) =>
                \E g \in mine :
                    /\ \A o \in mine \ {g} : LaterEnrolment(g, o)
                    /\ response.value = {g.school}

\* C5: with at least one current enrolment (end_date null or >= today) the
\* result is exactly the set of schools of the current enrolments, ended
\* enrolments are ignored; with no enrolment at all the result is empty.
C5_CurrentEnrolmentSchools ==
    request.op = "get_effective_student_schools" =>
        LET mine == {e \in enrolments : e.student = request.student}
            current == {e \in mine : e.end_date = NoDate \/ e.end_date >= today}
        IN  /\ current # {} => response.value = {e.school : e \in current}
            /\ mine = {} => response.value = {}

C5_Witness ==
    /\ request.op = "get_effective_student_schools"
    /\ \E e1, e2 \in enrolments :
           /\ e1.student = request.student
           /\ e2.student = request.student
           /\ e1.end_date # NoDate /\ e1.end_date > today
           /\ e2.end_date # NoDate /\ e2.end_date < today
           /\ e2.school_year > e1.school_year
           /\ e2.school # e1.school
           /\ response.value = {e1.school}

\* ------------------------------------------------------------------------
\* Access decisions: user u1 holds any role set, u2 is a teacher with a
\* staff profile; assignments and enrolments are added row by row.
\* ------------------------------------------------------------------------
InitAccess ==
    /\ is_superuser \in SUBSET {"u1"}
    /\ groups \in {g \in [Users -> SUBSET GroupNames] :
                      /\ Cardinality(g["u1"]) <= MaxGroups
                      /\ g["u2"] = {GROUP_TEACHERS}}
    /\ school_staff \in {{"u2"}, {"u1", "u2"}}
    /\ system_user = {}
    /\ assignments = {}
    /\ students = {}
    /\ enrolments = {}
    /\ today = 2
    /\ nulls_first = TRUE
    /\ auth_group = GroupNames
    /\ student_rows = <<>>
    /\ in_flight = {}
    /\ mail_threads = {}
    /\ outbox = <<>>
    /\ mail_log = {}
    /\ request = NoRequest
    /\ response = NoResponse

RowCount == Cardinality(assignments) + Cardinality(enrolments)

NextAccess ==
    \/ StudentAdmin_add
    \/ RowCount < MaxRows /\ SchoolStaffAssignmentInline_add({NoDate}, {NoDate, 3})
    \/ RowCount < MaxRows /\ StudentSchoolEnrolmentInline_add({2025}, {NoDate}, {NoDate, 1})
    \/ RowCount < MaxRows /\ student_new(Callers, {2025}, {FALSE})
    \/ call_get_user_schools
    \/ call_can_view_staff
    \/ call_can_create_staff_assignment
    \/ call_can_edit_staff_assignment
    \/ call_can_delete_staff_assignment
    \/ call_can_create_student
    \/ call_can_view_student
    \/ call_can_edit_student
    \/ call_can_delete_student
    \/ call_filter_staff_for_user
    \/ call_filter_students_for_user
    \/ deliver_response

SpecAccess == InitAccess /\ [][NextAccess]_vars

DecisionFunctions ==
    {"can_view_staff", "can_create_staff_assignment",
     "can_edit_staff_assignment", "can_delete_staff_assignment",
     "can_create_student", "can_view_student", "can_edit_student",
     "can_delete_student"}

\* Superuser, or member of Admins or System Admins.
AdminUser(u) ==
    /\ u \in Users
    /\ u \in is_superuser \/ groups[u] \cap {"Admins", "System Admins"} # {}

\* C1: for a superuser or a member of Admins or System Admins every access
\* decision function returns true for every target, whatever the user's
\* staff profile and assignments.
C1_AdminAlwaysAllowed ==
    (request.op \in DecisionFunctions /\ AdminUser(request.user))
        => response.value = TRUE

C1_Witness ==
    /\ request.op = "can_edit_staff_assignment"
    /\ request.user \in Users
    /\ request.user \notin is_superuser
    /\ groups[request.user] = {"System Admins"}
    /\ request.user \notin school_staff
    /\ \A a \in assignments : a.school_staff # request.user
    /\ response.value = TRUE

SchoolScopedGroups == {"School Admins", "School Staff", "Teachers"}

\* Not an admin, and every role held is a school-scoped one.
SchoolScopedUser(u) ==
    /\ u \in Users
    /\ ~AdminUser(u)
    /\ groups[u] # {}
    /\ groups[u] \subseteq SchoolScopedGroups

\* C2: for a non-admin user whose roles are school-scoped, can_view_student
\* is true iff get_user_schools(user) and get_effective_student_schools(student)
\* share a school, and can_view_staff is true iff get_user_schools(user) and
\* get_user_schools(staff.user) share a school.
C2_ViewIffSharedSchool ==
    /\ (request.op = "can_view_student" /\ SchoolScopedUser(request.user)) =>
           (response.value = TRUE <=>
               get_user_schools(request.user)
                   \cap get_effective_student_schools(request.student) # {})
    /\ (request.op = "can_view_staff" /\ SchoolScopedUser(request.user)) =>
           (response.value = TRUE <=>
               get_user_schools(request.user)
                   \cap get_user_schools(request.staff) # {})

C2_Witness ==
    /\ request.op = "can_view_staff"
    /\ SchoolScopedUser(request.user)
    /\ request.staff # request.user
    /\ get_user_schools(request.user) # {}
    /\ get_user_schools(request.staff) # {}
    /\ get_user_schools(request.user) \cap get_user_schools(request.staff) = {}
    /\ response.value = FALSE

\* C6: get_user_schools(user) is exactly the set of schools where the user's
\* staff profile has an assignment with end_date null; it is empty without a
\* staff profile and does not depend on the user's roles; an assignment
\* with a future end_date contributes nothing.
C6_UserSchoolsAreOpenEndedAssignments ==
    request.op = "get_user_schools" =>
        response.value =
            {s \in Schools :
                /\ request.user \in Users
                /\ request.user \in school_staff
                /\ \E a \in assignments :
                       /\ a.school_staff = request.user
                       /\ a.school = s
                       /\ a.end_date = NoDate}

C6_Witness ==
    /\ request.op = "get_user_schools"
    /\ AdminUser(request.user)
    /\ \E a, b \in assignments :
           /\ a.school_staff = request.user
           /\ b.school_staff = request.user
           /\ a.end_date = NoDate
           /\ b.end_date # NoDate /\ b.end_date > today
           /\ a.school # b.school
           /\ response.value = {a.school}

FilterFunctions == {"filter_students_for_user", "filter_staff_for_user"}

\* Superuser, admin or System Staff: the roles that read every row.
UnrestrictedReader(u) ==
    /\ u \in Users
    /\ AdminUser(u) \/ "System Staff" \in groups[u]

\* C8 as stated: every user holding a school-scoped role with no school
\* gets an empty result for any non-empty input query.
C8_Original ==
    (/\ request.op \in FilterFunctions
     /\ request.user \in Users
     /\ groups[request.user] \cap SchoolScopedGroups # {}
     /\ get_user_schools(request.user) = {}
     /\ request.qs # {})
        => response.value = {}

\* C8 (amended): every user who holds a school-scoped role, is not a
\* superuser, admin or System Staff member and has no school gets an empty
\* result from filter_students_for_user and filter_staff_for_user for any
\* non-empty input query.
C8_NoSchoolNoRows ==
    (/\ request.op \in FilterFunctions
     /\ request.user \in Users
     /\ groups[request.user] \cap SchoolScopedGroups # {}
     /\ ~UnrestrictedReader(request.user)
     /\ get_user_schools(request.user) = {}
     /\ request.qs # {})
        => response.value = {}

C8_Witness ==
    /\ request.op = "filter_students_for_user"
    /\ request.user \in Users
    /\ groups[request.user] = {"Teachers"}
    /\ request.user \notin is_superuser
    /\ get_user_schools(request.user) = {}
    /\ \E row \in request.qs : row.latest_school_no \in Schools
    /\ response.value = {}

C10_CreatorsState ==
    request.op = "can_create_student" =>
        (response.value = TRUE <=>
            /\ request.user \in Users
            /\ \/ AdminUser(request.user)
               \/ groups[request.user] \cap {"School Admins", "Teachers"} # {})

C10_DeniedCreatesNothing ==
    (/\ request'.op = "student_new"
     /\ request # request'
     /\ ~(/\ request'.user \in Users
          /\ \/ AdminUser(request'.user)
             \/ groups[request'.user] \cap {"School Admins", "Teachers"} # {}))
        => /\ students' = students
           /\ enrolments' = enrolments
           /\ response'.status \in {"permission_denied", "redirect_login"}

C10_WhoCanCreateStudents ==
    []C10_CreatorsState /\ [][C10_DeniedCreatesNothing]_vars

C10_Witness ==
    /\ request.op = "student_new"
    /\ request.method = "POST"
    /\ request.user \in Users
    /\ request.user \notin is_superuser
    /\ groups[request.user] = {"School Staff"}
    /\ request.school \in get_user_schools(request.user)
    /\ response.status = "permission_denied"

\* ------------------------------------------------------------------------
\* The views: two school-level users with staff profiles; the admin site
\* gives them assignments; students and enrolments are created, edited and
\* read through the views while the days pass.
\* ------------------------------------------------------------------------
Init ==
    /\ is_superuser = {}
    /\ groups \in [Users -> {{GROUP_TEACHERS}, {GROUP_SCHOOL_ADMINS}}]
    /\ school_staff = Users
    /\ system_user = {}
    /\ assignments = {}
    /\ students = {}
    /\ enrolments = {}
    /\ today = 1
    /\ nulls_first = TRUE
    /\ auth_group = GroupNames
    /\ student_rows = <<>>
    /\ in_flight = {}
    /\ mail_threads = {}
    /\ outbox = <<>>
    /\ mail_log = {}
    /\ request = NoRequest
    /\ response = NoResponse

Visitors == Users \cup {AnonymousUser}

Next ==
    \/ SchoolStaffAssignmentInline_add({NoDate}, {NoDate})
    \/ StudentSchoolEnrolmentInline_add(SchoolYears, {NoDate}, {NoDate})
    \/ student_new(Visitors, SchoolYears, {FALSE})
    \/ student_detail(Visitors)
    \/ student_enrolment_add(Users, {NoDate}, {NoDate, MaxDay})
    \/ student_enrolment_edit(Users, {NoDate}, {NoDate, 1})
    \/ next_day
    \/ deliver_response

Spec == Init /\ [][Next]_vars

\* The schools where the user's staff profile has an open-ended assignment.
OpenSchools(u) ==
    {a.school : a \in {b \in assignments :
                          b.school_staff = u /\ b.end_date = NoDate}}

TeacherOnlyAt(u, s) ==
    /\ u \in Users
    /\ u \notin is_superuser
    /\ groups[u] = {"Teachers"}
    /\ OpenSchools(u) = {s}

\* Every enrolment of the student is at school s, and there is one.
EnrolledOnlyAt(x, s) ==
    /\ \E e \in enrolments : e.student = x
    /\ \A e \in enrolments : e.student = x => e.school = s

\* The student's enrolment at school s has ended and a current enrolment
\* at school t was added; no other enrolment is current.
MovedFromTo(x, s, t) ==
    /\ \E e \in enrolments :
           /\ e.student = x /\ e.school = s
           /\ e.end_date # NoDate /\ e.end_date < today
    /\ \E e \in enrolments :
           /\ e.student = x /\ e.school = t
           /\ e.end_date = NoDate \/ e.end_date >= today
    /\ \A e \in enrolments :
           (e.student = x /\ (e.end_date = NoDate \/ e.end_date >= today))
               => e.school = t

\* C3: access follows the enrolment history.  For a teacher affiliated only
\* with school s: a student enrolled only at s can be viewed, a student
\* enrolled only at another school cannot; once the student's enrolment at
\* s has ended and a current one was added at another school t the teacher
\* of s is denied and the teacher of t is allowed.  Every student_detail
\* request is decided on the state at the time of the request.
C3_AccessFollowsEnrolment ==
    request.op = "student_detail" =>
        \A s \in Schools : \A t \in Schools \ {s} :
            TeacherOnlyAt(request.user, s) =>
                /\ EnrolledOnlyAt(request.student, s) => response.status = "ok"
                /\ EnrolledOnlyAt(request.student, t)
                       => response.status = "permission_denied"
                /\ MovedFromTo(request.student, s, t)
                       => response.status = "permission_denied"
                /\ MovedFromTo(request.student, t, s) => response.status = "ok"

C3_Witness ==
    /\ request.op = "student_detail"
    /\ TeacherOnlyAt("u1", "s1")
    /\ TeacherOnlyAt("u2", "s2")
    /\ MovedFromTo(request.student, "s1", "s2")
    /\ request.user = "u1"
    /\ response.status = "permission_denied"

\* ------------------------------------------------------------------------
\* The two notions of "active": one staff member, one student, a superuser
\* who edits the assignments, on any day.
\* ------------------------------------------------------------------------
InitActive ==
    /\ is_superuser = {"u2"}
    /\ groups = [u \in Users |-> {}]
    /\ school_staff = {"u1"}
    /\ system_user = {}
    /\ assignments = {}
    /\ students = {1}
    /\ enrolments = {}
    /\ today \in Dates
    /\ nulls_first = TRUE
    /\ auth_group = GroupNames
    /\ student_rows = <<>>
    /\ in_flight = {}
    /\ mail_threads = {}
    /\ outbox = <<>>
    /\ mail_log = {}
    /\ request = NoRequest
    /\ response = NoResponse

NextActive ==
    \/ RowCount < MaxRows /\ SchoolStaffAssignmentInline_add({NoDate, 1}, {NoDate})
    \/ staff_assignment_edit({"u2"}, {NoDate, 1}, OptDates)
    \/ RowCount < MaxRows /\ StudentSchoolEnrolmentInline_add({2025}, {NoDate}, OptDates)
    \/ call_SchoolStaffAssignment_is_active
    \/ call_StudentSchoolEnrolment_is_active
    \/ deliver_response

SpecActive == InitActive /\ [][NextActive]_vars

\* C7: SchoolStaffAssignment.is_active is true exactly when end_date is
\* null, whatever start_date and today are; an enrolment whose end_date is
\* in the future is active although an assignment with that end_date is not.
C7_AssignmentActiveIffNoEndDate ==
    /\ request.op = "SchoolStaffAssignment.is_active" =>
           (response.value = TRUE <=> request.assignment.end_date = NoDate)
    /\ (/\ request.op = "StudentSchoolEnrolment.is_active"
        /\ request.enrolment.end_date # NoDate
        /\ request.enrolment.end_date > today)
           => response.value = TRUE

C7_Witness ==
    /\ request.op = "SchoolStaffAssignment.is_active"
    /\ request.assignment.start_date # NoDate
    /\ request.assignment.start_date <= today
    /\ request.assignment.end_date # NoDate
    /\ request.assignment.end_date > today
    /\ \E e \in enrolments : e.end_date = request.assignment.end_date
    /\ response.value = FALSE

\* ------------------------------------------------------------------------
\* The write paths: user u1 holds any role set and acts through the views
\* on the rows that the admin site and the views have created.
\* ------------------------------------------------------------------------
InitWrites ==
    /\ is_superuser \in SUBSET {"u1"}
    /\ groups \in {g \in [Users -> SUBSET GroupNames] :
                      /\ Cardinality(g["u1"]) <= 1
                      /\ g["u2"] = {GROUP_TEACHERS}}
    /\ school_staff = Users
    /\ system_user = {}
    /\ assignments = {}
    /\ students = {}
    /\ enrolments = {}
    /\ today = 2
    /\ nulls_first = TRUE
    /\ auth_group = GroupNames
    /\ student_rows = <<>>
    /\ in_flight = {}
    /\ mail_threads = {}
    /\ outbox = <<>>
    /\ mail_log = {}
    /\ request = NoRequest
    /\ response = NoResponse

\* Room for one more row, with primary keys kept within MaxRows.
RoomForAssignment == RowCount < MaxRows /\ NextId(assignments) <= MaxRows
RoomForEnrolment == RowCount < MaxRows /\ NextId(enrolments) <= MaxRows

NextWrites ==
    \/ StudentAdmin_add
    \/ RoomForAssignment /\ SchoolStaffAssignmentInline_add({NoDate}, {NoDate, 3})
    \/ RoomForEnrolment
           /\ StudentSchoolEnrolmentInline_add(SchoolYears, {NoDate}, {NoDate})
    \/ RoomForEnrolment /\ student_new(Callers, {2025}, {FALSE})
    \/ RoomForEnrolment /\ student_enrolment_add(Callers, {NoDate}, {NoDate})
    \/ student_enrolment_edit(Callers, {NoDate}, {NoDate})
    \/ student_enrolment_delete(Callers)
    \/ RoomForAssignment /\ staff_detail(Callers, {NoDate}, {NoDate})
    \/ staff_assignment_edit(Callers, {NoDate}, {NoDate, 3})
    \/ staff_assignment_delete(Callers)
    \/ call_can_delete_student
    \/ call_can_create_staff_assignment
    \/ deliver_response

SpecWrites == InitWrites /\ [][NextWrites]_vars

\* C11: can_delete_student is false for every user who is neither a
\* superuser nor an admin, whatever the user's roles and schools, and a
\* student_enrolment_delete request of such a user removes no enrolment.
C11_DeleteDecision ==
    (request.op = "can_delete_student" /\ ~AdminUser(request.user))
        => response.value = FALSE

C11_DeniedDeletesNothing ==
    (/\ request'.op = "student_enrolment_delete"
     /\ request # request'
     /\ ~AdminUser(request'.user))
        => /\ enrolments' = enrolments
           /\ response'.status \in {"permission_denied", "redirect_login"}

C11_OnlyAdminsDelete ==
    []C11_DeleteDecision /\ [][C11_DeniedDeletesNothing]_vars

C11_Witness ==
    /\ request.op = "student_enrolment_delete"
    /\ request.method = "POST"
    /\ request.user \in Users
    /\ request.user \notin is_superuser
    /\ groups[request.user] = {"School Admins"}
    /\ request.enrolment.school \in get_user_schools(request.user)
    /\ request.enrolment \in enrolments
    /\ response.status = "permission_denied"

\* C12: a staff_detail request of a user who is neither a superuser nor an
\* admin adds an assignment only for a school of the user's own open-ended
\* assignments, although can_create_staff_assignment without a target
\* school is true for every School Admin, also one with no such assignment.
C12_AttemptAllowed ==
    (/\ request.op = "can_create_staff_assignment"
     /\ request.target_school = NoSchool
     /\ request.user \in Users
     /\ "School Admins" \in groups[request.user])
        => response.value = TRUE

C12_SavedOnlyForOwnSchool ==
    (/\ request'.op = "staff_detail"
     /\ request # request'
     /\ ~AdminUser(request'.user)
     /\ assignments' # assignments)
        => /\ request'.user \in school_staff
           /\ request'.school \in OpenSchools(request'.user)
           /\ \E a \in assignments' :
                  /\ assignments' = assignments \cup {a}
                  /\ a.school = request'.school
                  /\ a.school_staff = request'.staff

C12_AssignmentOnlyForOwnSchool ==
    []C12_AttemptAllowed /\ [][C12_SavedOnlyForOwnSchool]_vars

C12_Witness ==
    /\ request.op = "staff_detail"
    /\ request.method = "POST"
    /\ request.user \in Users
    /\ request.user \notin is_superuser
    /\ groups[request.user] = {"School Admins"}
    /\ OpenSchools(request.user) # {}
    /\ request.school \notin OpenSchools(request.user)
    /\ \E a \in assignments :
           a.school_staff = request.user /\ a.school = request.school
    /\ response.status = "page"

\* C13: a student_new or student_enrolment_add request of a user who is
\* neither a superuser nor an admin adds an enrolment only for a school of
\* the user's own open-ended assignments, and only when the user is a
\* School Admin or a Teacher (so never for School Staff only or no role).
C13_EnrolmentOnlyForOwnSchool ==
    [][(/\ request'.op \in {"student_new", "student_enrolment_add"}
        /\ request # request'
        /\ ~AdminUser(request'.user)
        /\ enrolments' # enrolments)
           => /\ request'.user \in school_staff
              /\ groups[request'.user] \cap {"School Admins", "Teachers"} # {}
              /\ request'.school \in OpenSchools(request'.user)
              /\ \E e \in enrolments' :
                     /\ enrolments' = enrolments \cup {e}
                     /\ e \notin enrolments
                     /\ e.school = request'.school]_vars

C13_Witness ==
    /\ request.op = "student_enrolment_add"
    /\ request.method = "POST"
    /\ request.user \in Users
    /\ request.user \notin is_superuser
    /\ groups[request.user] = {"Teachers"}
    /\ OpenSchools(request.user) # {}
    /\ request.school \notin OpenSchools(request.user)
    /\ ~\E e \in enrolments :
           /\ e.student = request.student
           /\ e.school = request.school
           /\ e.school_year = request.school_year
    /\ response.status = "form"

\* C14: a staff_assignment_edit or staff_assignment_delete request of a
\* user who is neither a superuser nor an admin succeeds only if the stored
\* assignment's school is one of the user's open-ended assignment schools
\* when the request is made, and a successful edit leaves the assignment at
\* such a school; an unsuccessful request changes no assignment.
C14_AssignmentChangeOnlyInOwnSchool ==
    [][(/\ request'.op \in {"staff_assignment_edit", "staff_assignment_delete"}
        /\ request # request'
        /\ ~AdminUser(request'.user))
           => IF response'.status = "redirect_staff_detail"
              THEN /\ request'.user \in school_staff
                   /\ request'.assignment.school \in OpenSchools(request'.user)
                   /\ request'.op = "staff_assignment_edit" =>
                          /\ request'.school \in OpenSchools(request'.user)
                          /\ \E a \in assignments' :
                                 /\ a.id = request'.assignment.id
                                 /\ a.school = request'.school
                   /\ request'.op = "staff_assignment_delete" =>
                          assignments' = assignments \ {request'.assignment}
              ELSE assignments' = assignments]_vars

C14_Witness ==
    /\ request.op = "staff_assignment_edit"
    /\ request.method = "POST"
    /\ request.user \in Users
    /\ request.user \notin is_superuser
    /\ groups[request.user] = {"School Admins"}
    /\ request.assignment.school_staff # request.user
    /\ request.assignment.school \in OpenSchools(request.user)
    /\ request.school \notin OpenSchools(request.user)
    /\ response.status = "form"
    /\ request.assignment \in assignments

\* C15: a student_enrolment_edit request of a user who is neither a
\* superuser nor an admin changes an enrolment only if the school stored in
\* that enrolment before the edit is one of the user's open-ended assignment
\* schools; another enrolment of the same student at such a school is not
\* enough.
C15_EnrolmentEditOnlyInOwnSchool ==
    [][(/\ request'.op = "student_enrolment_edit"
        /\ request # request'
        /\ ~AdminUser(request'.user)
        /\ enrolments' # enrolments)
           => request'.enrolment.school \in OpenSchools(request'.user)]_vars

\* ------------------------------------------------------------------------
\* Role management: u1 holds any role set and edits or assigns roles; u2 is
\* the other user, with or without profiles.
\* ------------------------------------------------------------------------
GroupSelections ==
    {{}, {GROUP_ADMINS}, {GROUP_TEACHERS}, {GROUP_ADMINS, GROUP_TEACHERS},
     {GROUP_SYSTEM_STAFF}, {GROUP_ADMINS, GROUP_SYSTEM_STAFF}}

AssignmentAt(id, user, school) ==
    [id |-> id, school_staff |-> user, school |-> school,
     start_date |-> NoDate, end_date |-> NoDate]

InitRoles ==
    /\ is_superuser \in SUBSET {"u1"}
    /\ groups \in {g \in [Users -> SUBSET GroupNames] :
                      /\ Cardinality(g["u1"]) <= 1
                      /\ g["u2"] \in {{}, {GROUP_ADMINS}, {GROUP_TEACHERS},
                                      {GROUP_ADMINS, GROUP_TEACHERS}}}
    /\ \/ /\ school_staff = Users
          /\ assignments = {AssignmentAt(1, "u1", "s1"),
                            AssignmentAt(2, "u2", "s1")}
       \/ /\ school_staff = {"u1"}
          /\ assignments = {AssignmentAt(1, "u1", "s1")}
    /\ system_user \in {{}, {"u2"}}
    /\ students = {}
    /\ enrolments = {}
    /\ today = 1
    /\ nulls_first = TRUE
    /\ auth_group = GroupNames
    /\ student_rows = <<>>
    /\ in_flight = {}
    /\ mail_threads = {}
    /\ outbox = <<>>
    /\ mail_log = {}
    /\ request = NoRequest
    /\ response = NoResponse

NextRoles ==
    \/ staff_edit(Callers, GroupSelections)
    \/ system_user_edit(Callers, GroupSelections)
    \/ assign_school_staff(Callers, GroupSelections)
    \/ assign_system_user(Callers, GroupSelections)
    \/ deliver_response

SpecRoles == InitRoles /\ [][NextRoles]_vars

RoleForms ==
    {"staff_edit", "system_user_edit", "assign_school_staff",
     "assign_system_user"}

\* C16: when the acting user is neither a superuser nor a member of Admins,
\* a role-form submission that selects Admins is not accepted and changes
\* no group membership and no profile, whatever else it selects.
C16_AdminsGroupCeiling ==
    [][(/\ request'.op \in RoleForms
        /\ request # request'
        /\ request'.method = "POST"
        /\ "Admins" \in request'.selected
        /\ ~(/\ request'.user \in Users
             /\ \/ request'.user \in is_superuser
                \/ "Admins" \in groups[request'.user]))
           => /\ groups' = groups
              /\ school_staff' = school_staff
              /\ system_user' = system_user
              /\ response'.status \in {"form", "redirect_login",
                                       "permission_denied",
                                       "redirect_no_permission",
                                       "redirect_pending_users_list"}]_vars

C16_Witness ==
    /\ request.op = "staff_edit"
    /\ request.method = "POST"
    /\ request.user \in Users
    /\ request.user \notin is_superuser
    /\ groups[request.user] = {"School Admins"}
    /\ request.target # request.user
    /\ OpenSchools(request.user) \cap OpenSchools(request.target) # {}
    /\ request.selected = {"Admins", "Teachers"}
    /\ "Admins" \notin groups[request.target]
    /\ response.status = "form"

\* C17: a staff_edit or system_user_edit request of a System Admins or
\* School Admins member who is neither a superuser nor in Admins leaves the
\* target user's membership of Admins as it was: neither added nor removed.
C17_AdminsTagUntouched ==
    [][(/\ request'.op \in {"staff_edit", "system_user_edit"}
        /\ request # request'
        /\ request'.user \in Users
        /\ request'.user \notin is_superuser
        /\ "Admins" \notin groups[request'.user]
        /\ groups[request'.user] \cap {"System Admins", "School Admins"} # {})
           => ("Admins" \in groups'[request'.target]
                   <=> "Admins" \in groups[request'.target])]_vars


\* ------------------------------------------------------------------------
\* Enrolment integrity: the interface views, each also split into the form
\* validation of one worker and the later save() of that worker, so that
\* requests of several workers overlap.
\* ------------------------------------------------------------------------

MaxInFlight == 2
Workers == 1..MaxInFlight

FreeWorkers == {w \in Workers : \A f \in in_flight : f.worker # w}

\* student_enrolment_add up to form.is_valid(): the worker holds a valid form.
student_enrolment_add_is_valid(users, start_dates) ==
    \E user \in users, student \in students, worker \in FreeWorkers,
       school \in Schools, school_year \in SchoolYears,
       start_date \in start_dates :
        /\ request = NoRequest
        /\ is_authenticated(user)
        /\ can_edit_student(user, student)
        /\ school \in get_allowed_enrolment_schools(user)
        /\ in_flight' = in_flight \cup
               {[worker |-> worker, op |-> "student_enrolment_add",
                 user |-> user, student |-> student, enrolment |-> 0,
                 school |-> school, school_year |-> school_year,
                 start_date |-> start_date, status |-> "valid"]}
        /\ UNCHANGED <<is_superuser, groups, school_staff, system_user,
                       assignments, students, enrolments, today, nulls_first, auth_group, student_rows, mail_threads, outbox, mail_log,
                       request, response>>

\* student_enrolment_add from enrol.save(): the INSERT is checked against
\* uq_student_school_year by the database at the time it runs.
student_enrolment_add_save ==
    \E f \in in_flight :
        /\ f.op = "student_enrolment_add"
        /\ f.status = "valid"
        /\ LET row == [id |-> NextId(enrolments), student |-> f.student,
                       school |-> f.school, school_year |-> f.school_year,
                       start_date |-> f.start_date, end_date |-> NoDate,
                       created_at |-> NextId(enrolments)]
           IN  IF uq_student_school_year(enrolments, row)
               THEN /\ Cardinality(enrolments) < MaxEnrolments
                    /\ enrolments' = enrolments \cup {row}
                    /\ in_flight' = (in_flight \ {f}) \cup
                           {[f EXCEPT !.status = "redirect_student_detail"]}
               ELSE /\ UNCHANGED enrolments
                    /\ in_flight' = (in_flight \ {f}) \cup
                           {[f EXCEPT !.status = "integrity_error"]}
        /\ UNCHANGED <<is_superuser, groups, school_staff, system_user,
                       assignments, students, today, nulls_first, auth_group, student_rows, mail_threads, outbox, mail_log, request,
                       response>>

\* student_enrolment_edit up to form.is_valid().
student_enrolment_edit_is_valid(users, start_dates) ==
    \E user \in users, enrolment \in enrolments, worker \in FreeWorkers,
       school \in Schools, school_year \in SchoolYears,
       start_date \in start_dates :
        /\ request = NoRequest
        /\ is_authenticated(user)
        /\ can_edit_student(user, enrolment.student)
        /\ school \in get_allowed_enrolment_schools(user)
        /\ in_flight' = in_flight \cup
               {[worker |-> worker, op |-> "student_enrolment_edit",
                 user |-> user, student |-> enrolment.student,
                 enrolment |-> enrolment.id,
                 school |-> school, school_year |-> school_year,
                 start_date |-> start_date, status |-> "valid"]}
        /\ UNCHANGED <<is_superuser, groups, school_staff, system_user,
                       assignments, students, enrolments, today, nulls_first, auth_group, student_rows, mail_threads, outbox, mail_log,
                       request, response>>

\* student_enrolment_edit from enrol.save(): the UPDATE of the row with the
\* enrolment's primary key is checked against uq_student_school_year.
student_enrolment_edit_save ==
    \E f \in in_flight, stored \in enrolments :
        /\ f.op = "student_enrolment_edit"
        /\ f.status = "valid"
        /\ stored.id = f.enrolment
        /\ LET row == [stored EXCEPT !.school = f.school,
                                     !.school_year = f.school_year,
                                     !.start_date = f.start_date]
           IN  IF uq_student_school_year(enrolments, row)
               THEN /\ enrolments' = (enrolments \ {stored}) \cup {row}
                    /\ in_flight' = (in_flight \ {f}) \cup
                           {[f EXCEPT !.status = "redirect_student_detail"]}
               ELSE /\ UNCHANGED enrolments
                    /\ in_flight' = (in_flight \ {f}) \cup
                           {[f EXCEPT !.status = "integrity_error"]}
        /\ UNCHANGED <<is_superuser, groups, school_staff, system_user,
                       assignments, students, today, nulls_first, auth_group, student_rows, mail_threads, outbox, mail_log, request,
                       response>>

\* The worker's response leaves; the worker is free again.
worker_done ==
    \E f \in in_flight :
        /\ f.status \in {"redirect_student_detail", "integrity_error",
                        "bad_request", "redirect_staff_detail",
                        "server_error"}
        /\ in_flight' = in_flight \ {f}
        /\ UNCHANGED <<is_superuser, groups, school_staff, system_user,
                       assignments, students, enrolments, today, nulls_first, auth_group, student_rows, mail_threads, outbox, mail_log,
                       request, response>>

InitEnrolments ==
    /\ is_superuser \in SUBSET {"u1"}
    /\ groups = [u \in Users |-> IF u = "u1" THEN {"School Admins"} ELSE {}]
    /\ school_staff = Users
    /\ system_user = {}
    /\ assignments = {AssignmentAt(1, "u1", "s1")}
    /\ students = {}
    /\ enrolments = {}
    /\ today = 1
    /\ nulls_first = TRUE
    /\ auth_group = GroupNames
    /\ student_rows = <<>>
    /\ in_flight = {}
    /\ mail_threads = {}
    /\ outbox = <<>>
    /\ mail_log = {}
    /\ request = NoRequest
    /\ response = NoResponse

NextEnrolments ==
    \/ student_new(Callers, {2024}, BOOLEAN)
    \/ student_enrolment_add(Callers, {NoDate, 1}, {NoDate})
    \/ student_enrolment_edit(Callers, {NoDate}, {NoDate})
    \/ student_enrolment_add_is_valid({"u1"}, {NoDate})
    \/ student_enrolment_add_save
    \/ student_enrolment_edit_is_valid({"u1"}, {NoDate})
    \/ student_enrolment_edit_save
    \/ worker_done
    \/ deliver_response

SpecEnrolments == InitEnrolments /\ [][NextEnrolments]_vars

SameTriple(a, b) ==
    /\ a.student = b.student
    /\ a.school = b.school
    /\ a.school_year = b.school_year

\* C18: in every reachable state no two enrolment rows hold the same
\* (student, school, school_year), whatever student_new,
\* student_enrolment_add and student_enrolment_edit requests ran, overlapping
\* ones included: a save for a triple that already has a row adds none.
C18_OneEnrolmentPerTriple ==
    \A a \in enrolments, b \in enrolments : SameTriple(a, b) => a = b

\* Two workers validated an add for the same triple at the same time; one was
\* saved, the other refused, and one row holds the triple.
C18_Witness ==
    \E f \in in_flight, g \in in_flight :
        /\ f.worker # g.worker
        /\ f.op = "student_enrolment_add"
        /\ g.op = "student_enrolment_add"
        /\ SameTriple(f, g)
        /\ f.status = "redirect_student_detail"
        /\ g.status = "integrity_error"
        /\ Cardinality({e \in enrolments : SameTriple(e, f)}) = 1


\* C19: student_new is atomic: a request either commits one new Student row
\* together with one enrolment row of that student, or commits nothing; when
\* the creation of the enrolment raises, the Student row written before it in
\* the same request is gone and students is unchanged.
C19_StudentNewAtomic ==
    [][(request'.op = "student_new" /\ request # request')
       => /\ \/ /\ students' = students
                /\ enrolments' = enrolments
             \/ \E student \in students' \ students :
                    /\ students' = students \cup {student}
                    /\ \E e \in enrolments' \ enrolments :
                           /\ e.student = student
                           /\ enrolments' = enrolments \cup {e}
          /\ response'.status = "bad_request"
                 => /\ students' = students
                    /\ enrolments' = enrolments]_vars

\* A student_new request whose enrolment INSERT raised was answered, and no
\* student is without an enrolment.
C19_Witness ==
    /\ request.op = "student_new"
    /\ response.status = "bad_request"
    /\ \A student \in students : \E e \in enrolments : e.student = student


\* A request collides when its POST passed the permission check and the form,
\* and the triple it submits is held by another enrolment of the student.
Collides(req) ==
    /\ req.op \in {"student_enrolment_add", "student_enrolment_edit"}
    /\ req.method = "POST"
    /\ is_authenticated(req.user)
    /\ can_edit_student(req.user, req.student)
    /\ req.school \in get_allowed_enrolment_schools(req.user)
    /\ \E e \in enrolments :
           /\ e.student = req.student
           /\ e.school = req.school
           /\ e.school_year = req.school_year
           /\ req.op = "student_enrolment_edit" => e.id # req.enrolment.id

\* Responses that carry a message the user can act on: the form shown again
\* or the 400 page of student_new.
RecoverableStatuses == {"form", "bad_request"}

\* C20: every request that would create a duplicate (student, school,
\* school_year) enrolment, through student_new, student_enrolment_add or
\* student_enrolment_edit, is answered with a recoverable validation message
\* and leaves students and enrolments unchanged; none ends with an unhandled
\* exception.
C20_DuplicateIsRecoverable ==
    [][/\ (request' # request /\ Collides(request'))
           => /\ response'.status \in RecoverableStatuses
              /\ students' = students
              /\ enrolments' = enrolments
       /\ (request' # request /\ request'.op = "student_new"
           /\ response'.status \notin {"redirect_login", "permission_denied",
                                       "form", "redirect_student_detail"})
           => /\ response'.status \in RecoverableStatuses
              /\ students' = students
              /\ enrolments' = enrolments]_vars


\* ------------------------------------------------------------------------
\* Notification of a created student: student_new statement by statement.
\* Rows written inside the atomic block are held by the worker (in_flight)
\* and reach students / enrolments when the block commits.
\* ------------------------------------------------------------------------

MaxStudentId == 3

Range(seq) == {seq[i] : i \in DOMAIN seq}

Occurrences(seq, x) == Cardinality({i \in DOMAIN seq : seq[i] = x})

NewStudents == {f \in in_flight : f.op = "student_new"}

\* The primary key the database hands to the next Student row.
NextStudentId ==
    LET used == students \cup {f.student : f \in NewStudents} \cup {0}
    IN  (CHOOSE n \in used : \A m \in used : m <= n) + 1

\* transaction.on_commit(_send_email): the callback waits for the commit.
\* The variant below calls it where it is registered.
transaction_on_commit_at_once(f) == [f EXCEPT !.hooks = "due"]

transaction_on_commit(f) == [f EXCEPT !.hooks = "registered"]

\* student_new up to form.is_valid().
student_new_is_valid(users, years) ==
    \E user \in users, worker \in FreeWorkers, school \in Schools,
       school_year \in years :
        /\ request = NoRequest
        /\ is_authenticated(user)
        /\ can_create_student(user)
        /\ school \in get_allowed_enrolment_schools(user)
        /\ in_flight' = in_flight \cup
               {[worker |-> worker, op |-> "student_new", user |-> user,
                 student |-> 0, enrolment |-> 0, school |-> school,
                 school_year |-> school_year, start_date |-> NoDate,
                 status |-> "valid", hooks |-> "none"]}
        /\ UNCHANGED <<is_superuser, groups, school_staff, system_user,
                       assignments, students, enrolments, today, nulls_first, auth_group, student_rows,
                       mail_threads, outbox, mail_log, request, response>>

\* The body of the atomic block: both creates, then the registration of
\* _send_email. When a create raises, the block rolls back and the callback
\* was never registered.
student_new_atomic(raises) ==
    \E f \in NewStudents, create_raises \in raises :
        /\ f.status = "valid"
        /\ NextStudentId <= MaxStudentId
        /\ in_flight' = (in_flight \ {f}) \cup
               {IF create_raises
                THEN [f EXCEPT !.status = "rolled_back"]
                ELSE transaction_on_commit(
                         [f EXCEPT !.status = "in_atomic",
                                   !.student = NextStudentId])}
        /\ UNCHANGED <<is_superuser, groups, school_staff, system_user,
                       assignments, students, enrolments, today, nulls_first, auth_group, student_rows,
                       mail_threads, outbox, mail_log, request, response>>

\* Leaving the atomic block: the rows are committed and the registered
\* callbacks become due.
student_new_commit ==
    \E f \in NewStudents :
        /\ f.status = "in_atomic"
        /\ Cardinality(students) < MaxStudents
        /\ Cardinality(enrolments) < MaxEnrolments
        /\ students' = students \cup {f.student}
        /\ enrolments' = enrolments \cup
               {[id |-> NextId(enrolments), student |-> f.student,
                 school |-> f.school, school_year |-> f.school_year,
                 start_date |-> NoDate, end_date |-> NoDate,
                 created_at |-> NextId(enrolments)]}
        /\ in_flight' = (in_flight \ {f}) \cup
               {[f EXCEPT !.status = "committed",
                          !.hooks = IF f.hooks = "registered" THEN "due"
                                    ELSE f.hooks]}
        /\ UNCHANGED <<is_superuser, groups, school_staff, system_user,
                       assignments, today, nulls_first, auth_group, student_rows, mail_threads, outbox,
                       mail_log, request, response>>

\* _send_email calls send_student_created_email_async, which starts the
\* daemon thread; an exception on the way is logged and swallowed.
student_new_send_email(starts) ==
    \E f \in NewStudents, thread_started \in starts :
        /\ f.hooks = "due"
        /\ in_flight' = (in_flight \ {f}) \cup {[f EXCEPT !.hooks = "done"]}
        /\ IF thread_started
           THEN /\ mail_threads' = mail_threads \cup {f.student}
                /\ UNCHANGED mail_log
           ELSE /\ mail_log' = mail_log \cup {f.student}
                /\ UNCHANGED mail_threads
        /\ UNCHANGED <<is_superuser, groups, school_staff, system_user,
                       assignments, students, enrolments, today, nulls_first, auth_group, student_rows,
                       outbox, request, response>>

\* The view returns: the redirect after the block and its callbacks, or the
\* 400 page after IntegrityError.
student_new_return ==
    \E f \in NewStudents :
        /\ \/ /\ f.status = "committed"
              /\ f.hooks = "done"
              /\ in_flight' = (in_flight \ {f}) \cup
                     {[f EXCEPT !.status = "redirect_student_detail"]}
           \/ /\ f.status = "rolled_back"
              /\ in_flight' = (in_flight \ {f}) \cup
                     {[f EXCEPT !.status = "bad_request"]}
        /\ UNCHANGED <<is_superuser, groups, school_staff, system_user,
                       assignments, students, enrolments, today, nulls_first, auth_group, student_rows,
                       mail_threads, outbox, mail_log, request, response>>

\* _worker of send_student_created_email_async: the message is sent, or
\* skipped for want of recipients, or the failure is logged.
send_student_created_email_async_worker(outcomes) ==
    \E student \in mail_threads, outcome \in outcomes :
        /\ mail_threads' = mail_threads \ {student}
        /\ outbox' = IF outcome = "sent" THEN Append(outbox, student)
                     ELSE outbox
        /\ mail_log' = IF outcome = "raised" THEN mail_log \cup {student}
                       ELSE mail_log
        /\ UNCHANGED <<is_superuser, groups, school_staff, system_user,
                       assignments, students, enrolments, today, nulls_first, auth_group, student_rows,
                       in_flight, request, response>>

NextNotify ==
    \/ student_new_is_valid({"u1"}, {2024})
    \/ student_new_atomic(BOOLEAN)
    \/ student_new_commit
    \/ student_new_send_email(BOOLEAN)
    \/ student_new_return
    \/ send_student_created_email_async_worker({"sent", "skipped", "raised"})
    \/ worker_done

SpecNotify == InitEnrolments /\ [][NextNotify]_vars

Notified == mail_threads \cup Range(outbox)

\* C21: the student-created notification follows the commit: every started
\* or sent notification is for a committed student, a creation that rolled
\* back has no callback, a student has at most one notification, and a
\* failure while sending leaves the committed rows in place and the request
\* still ends with its redirect.
C21_NotifyAfterCommit ==
    /\ [](/\ Notified \subseteq students
          /\ \A student \in students : Occurrences(outbox, student) <= 1
          /\ \A f \in NewStudents :
                 /\ f.status \in {"rolled_back", "bad_request"}
                        => f.hooks = "none"
                 /\ f.hooks = "done" => f.student \in students
                 /\ (f.student \in mail_log /\ f.hooks = "done")
                        => f.status \in {"committed",
                                         "redirect_student_detail"})
    /\ [][mail_log' # mail_log
              => /\ students' = students
                 /\ enrolments' = enrolments]_vars

\* One creation was notified, another one's sending failed and was logged;
\* its rows are committed and its request was answered with the redirect.
C21_Witness ==
    /\ Len(outbox) >= 1
    /\ \E f \in NewStudents :
           /\ f.status = "redirect_student_detail"
           /\ f.student \in mail_log
           /\ f.student \in students
           /\ f.student \notin Range(outbox)


\* ------------------------------------------------------------------------
\* Application access (core/permissions.py has_app_access, core/middleware.py)
\* ------------------------------------------------------------------------

\* has_app_access without the group test (profile alone suffices).
has_app_access_profile_only(user) ==
    /\ is_authenticated(user)
    /\ \/ user \in is_superuser
       \/ user \in school_staff
       \/ user \in system_user

has_app_access(user) ==
    IF ~is_authenticated(user) THEN FALSE
    ELSE IF user \in is_superuser THEN TRUE
    ELSE IF ~(user \in school_staff \/ user \in system_user) THEN FALSE
    ELSE groups[user] # {}

\* A path is the sequence of its separators and segments.
startswith(path, prefix) ==
    /\ Len(prefix) <= Len(path)
    /\ SubSeq(path, 1, Len(prefix)) = prefix

EXEMPT_PATH_PREFIXES ==
    {<<"/", "accounts", "/">>, <<"/", "admin", "/">>,
     <<"/", "__debug__", "/">>, <<"/", "static", "/">>,
     <<"/", "media", "/">>}

\* reverse("accounts:no_permissions"), the accounts urls being included
\* under accounts/.
no_perms_url == <<"/", "accounts", "/", "no-permissions", "/">>

Paths ==
    {<<"/">>, <<"/", "students", "/">>, <<"/", "students", "/", "new", "/">>,
     <<"/", "accounts">>, <<"/", "accounts", "/", "login", "/">>,
     no_perms_url, <<"/", "admin", "/">>, <<"/", "static", "/", "app.css">>}

\* AppAccessMiddleware.__call__
AppAccessMiddleware(users, paths) ==
    \E user \in users, path \in paths :
        /\ request = NoRequest
        /\ request' = [op |-> "AppAccessMiddleware", user |-> user,
                       path |-> path]
        /\ response' =
               IF ~is_authenticated(user) THEN [status |-> "get_response"]
               ELSE IF \E prefix \in EXEMPT_PATH_PREFIXES :
                           startswith(path, prefix)
                    THEN [status |-> "get_response"]
               ELSE IF ~has_app_access(user) /\ path # no_perms_url
                    THEN [status |-> "redirect_no_permissions"]
               ELSE [status |-> "get_response"]
        /\ UNCHANGED world

call_has_app_access ==
    \E user \in Visitors :
        /\ request = NoRequest
        /\ request' = [op |-> "has_app_access", user |-> user]
        /\ response' = [status |-> "returned", value |-> has_app_access(user)]
        /\ UNCHANGED world

InitGate ==
    /\ is_superuser \in SUBSET Users
    /\ groups \in [Users -> {{}, {"Teachers"}, {"Admins", "School Admins"}}]
    /\ school_staff \in SUBSET Users
    /\ system_user \in SUBSET Users
    /\ assignments = {}
    /\ students = {}
    /\ enrolments = {}
    /\ today = 1
    /\ nulls_first = TRUE
    /\ auth_group = GroupNames
    /\ student_rows = <<>>
    /\ in_flight = {}
    /\ mail_threads = {}
    /\ outbox = <<>>
    /\ mail_log = {}
    /\ request = NoRequest
    /\ response = NoResponse

NextGate ==
    \/ AppAccessMiddleware(Visitors, Paths)
    \/ call_has_app_access
    \/ deliver_response

SpecGate == InitGate /\ [][NextGate]_vars

HasProfile(u) == u \in school_staff \/ u \in system_user

ExemptPath(path) ==
    /\ Len(path) >= 3
    /\ path[1] = "/"
    /\ path[2] \in {"accounts", "admin", "__debug__", "static", "media"}
    /\ path[3] = "/"

\* C22: has_app_access(user) is true exactly when the user is a superuser, or
\* has a profile (school staff or system user) and at least one group; and
\* the middleware answers every authenticated user without app access with
\* the redirect to the no-permissions page on every path that is not exempt.
C22_AppAccess ==
    /\ request.op = "has_app_access"
           => (response.value
               <=> /\ request.user \in Users
                   /\ \/ request.user \in is_superuser
                      \/ /\ HasProfile(request.user)
                         /\ groups[request.user] # {})
    /\ (/\ request.op = "AppAccessMiddleware"
        /\ request.user \in Users
        /\ request.user \notin is_superuser
        /\ ~(HasProfile(request.user) /\ groups[request.user] # {})
        /\ ~ExemptPath(request.path))
           => response.status = "redirect_no_permissions"

\* A user with a profile and no group asked for a page of the application
\* and was sent to the no-permissions page.
C22_Witness ==
    /\ request.op = "AppAccessMiddleware"
    /\ request.user \in school_staff
    /\ request.user \notin is_superuser
    /\ groups[request.user] = {}
    /\ request.path = <<"/", "students", "/">>
    /\ response.status = "redirect_no_permissions"


\* ------------------------------------------------------------------------
\* Role re-assignment statement by statement: staff_edit and
\* assign_school_staff run their writes one after the other, each committed
\* on its own (no transaction.atomic() around them).
\* ------------------------------------------------------------------------

RoleRequests ==
    {f \in in_flight : f.op \in {"staff_edit", "assign_school_staff"}}

\* staff_edit up to form.is_valid(), for an editor who may edit the groups.
staff_edit_is_valid(users, selections) ==
    \E user \in users, staff \in school_staff, worker \in FreeWorkers,
       selected \in selections :
        /\ request = NoRequest
        /\ is_authenticated(user)
        /\ can_edit_staff(user, staff)
        /\ can_edit_staff_groups(user, staff)
        /\ SchoolStaffEditForm(user, staff, selected).valid
        /\ in_flight' = in_flight \cup
               {[worker |-> worker, op |-> "staff_edit", user |-> user,
                 target |-> staff, old |-> groups[staff],
                 selected |-> SchoolStaffEditForm(user, staff, selected).groups,
                 status |-> "valid"]}
        /\ UNCHANGED <<is_superuser, groups, school_staff, system_user,
                       assignments, students, enrolments, today, nulls_first, auth_group, student_rows,
                       mail_threads, outbox, mail_log, request, response>>

\* staff.save()
staff_edit_save ==
    \E f \in RoleRequests :
        /\ f.op = "staff_edit"
        /\ f.status = "valid"
        /\ in_flight' = (in_flight \ {f}) \cup {[f EXCEPT !.status = "saved"]}
        /\ UNCHANGED <<is_superuser, groups, school_staff, system_user,
                       assignments, students, enrolments, today, nulls_first, auth_group, student_rows,
                       mail_threads, outbox, mail_log, request, response>>

\* staff.user.groups.remove(*school-level groups)
staff_edit_groups_remove ==
    \E f \in RoleRequests :
        /\ f.op = "staff_edit"
        /\ f.status = "saved"
        /\ groups' = [groups EXCEPT ![f.target] = @ \ SchoolLevelGroups]
        /\ in_flight' = (in_flight \ {f}) \cup
               {[f EXCEPT !.status = "removed"]}
        /\ UNCHANGED <<is_superuser, school_staff, system_user, assignments,
                       students, enrolments, today, nulls_first, auth_group, student_rows, mail_threads,
                       outbox, mail_log, request, response>>

\* staff.user.groups.add(*new_groups), then the redirect; when the statement
\* raises, the request ends with a server error.
staff_edit_groups_add(raises) ==
    \E f \in RoleRequests, add_raises \in raises :
        /\ f.op = "staff_edit"
        /\ f.status = "removed"
        /\ IF add_raises
           THEN /\ UNCHANGED groups
                /\ in_flight' = (in_flight \ {f}) \cup
                       {[f EXCEPT !.status = "server_error"]}
           ELSE /\ groups' = [groups EXCEPT ![f.target] = @ \cup f.selected]
                /\ in_flight' = (in_flight \ {f}) \cup
                       {[f EXCEPT !.status = "redirect_staff_detail"]}
        /\ UNCHANGED <<is_superuser, school_staff, system_user, assignments,
                       students, enrolments, today, nulls_first, auth_group, student_rows, mail_threads,
                       outbox, mail_log, request, response>>

\* assign_school_staff up to form.is_valid().
assign_school_staff_is_valid(users, selections) ==
    \E user \in users, target_user \in Users, worker \in FreeWorkers,
       selected \in selections :
        /\ request = NoRequest
        /\ is_authenticated(user)
        /\ can_manage_pending_users(user)
        /\ target_user \notin school_staff
        /\ AssignSchoolStaffForm(user, selected).valid
        /\ in_flight' = in_flight \cup
               {[worker |-> worker, op |-> "assign_school_staff",
                 user |-> user, target |-> target_user,
                 old |-> groups[target_user],
                 selected |-> AssignSchoolStaffForm(user, selected).groups,
                 status |-> "valid"]}
        /\ UNCHANGED <<is_superuser, groups, school_staff, system_user,
                       assignments, students, enrolments, today, nulls_first, auth_group, student_rows,
                       mail_threads, outbox, mail_log, request, response>>

\* SchoolStaff.objects.create(user=target_user, ...): the profile is one per
\* user, a second INSERT raises IntegrityError.
assign_school_staff_create ==
    \E f \in RoleRequests :
        /\ f.op = "assign_school_staff"
        /\ f.status = "valid"
        /\ IF f.target \in school_staff
           THEN /\ UNCHANGED school_staff
                /\ in_flight' = (in_flight \ {f}) \cup
                       {[f EXCEPT !.status = "integrity_error"]}
           ELSE /\ school_staff' = school_staff \cup {f.target}
                /\ in_flight' = (in_flight \ {f}) \cup
                       {[f EXCEPT !.status = "created"]}
        /\ UNCHANGED <<is_superuser, groups, system_user, assignments,
                       students, enrolments, today, nulls_first, auth_group, student_rows, mail_threads,
                       outbox, mail_log, request, response>>

\* target_user.groups.add(*groups), then the redirect.
assign_school_staff_groups_add(raises) ==
    \E f \in RoleRequests, add_raises \in raises :
        /\ f.op = "assign_school_staff"
        /\ f.status = "created"
        /\ IF add_raises
           THEN /\ UNCHANGED groups
                /\ in_flight' = (in_flight \ {f}) \cup
                       {[f EXCEPT !.status = "server_error"]}
           ELSE /\ groups' = [groups EXCEPT ![f.target] = @ \cup f.selected]
                /\ in_flight' = (in_flight \ {f}) \cup
                       {[f EXCEPT !.status = "redirect_staff_detail"]}
        /\ UNCHANGED <<is_superuser, school_staff, system_user, assignments,
                       students, enrolments, today, nulls_first, auth_group, student_rows, mail_threads,
                       outbox, mail_log, request, response>>

InitRoleSteps ==
    /\ is_superuser = {"u1"}
    /\ \/ /\ school_staff = Users
          /\ groups = [u \in Users |-> IF u = "u2" THEN {"Teachers"} ELSE {}]
       \/ /\ school_staff = {"u1"}
          /\ groups = [u \in Users |-> {}]
    /\ system_user = {}
    /\ assignments = {AssignmentAt(1, "u1", "s1")}
    /\ students = {}
    /\ enrolments = {}
    /\ today = 1
    /\ nulls_first = TRUE
    /\ auth_group = GroupNames
    /\ student_rows = <<>>
    /\ in_flight = {}
    /\ mail_threads = {}
    /\ outbox = <<>>
    /\ mail_log = {}
    /\ request = NoRequest
    /\ response = NoResponse

NextRoleSteps ==
    \/ staff_edit_is_valid({"u1"}, GroupSelections)
    \/ staff_edit_save
    \/ staff_edit_groups_remove
    \/ staff_edit_groups_add(BOOLEAN)
    \/ assign_school_staff_is_valid({"u1"}, GroupSelections)
    \/ assign_school_staff_create
    \/ assign_school_staff_groups_add(BOOLEAN)
    \/ worker_done

SpecRoleSteps == InitRoleSteps /\ [][NextRoleSteps]_vars

\* C23: role re-assignment is atomic: in no state has a staff_edit request
\* taken the target's school-level groups away without the new ones being
\* there, and in no state does a profile created by assign_school_staff
\* exist without the groups chosen for it.
C23_RoleChangeAtomic ==
    \A f \in RoleRequests :
        /\ (f.op = "staff_edit" /\ f.old \cap SchoolLevelGroups # {})
               => groups[f.target] \cap SchoolLevelGroups # {}
        /\ (f.op = "assign_school_staff"
            /\ f.status \in {"created", "server_error",
                             "redirect_staff_detail"})
               => f.selected \subseteq groups[f.target]


\* ------------------------------------------------------------------------
\* student_matches (core/views.py): fuzzy matching of student names.
\* A name is the sequence of its characters; a similarity is in whole
\* percent and a score in thousandths (0.6 * last + 0.4 * first becomes
\* 6 * last + 4 * first).
\* ------------------------------------------------------------------------

MaxPopulation == 4

\* candidates[:200] and results_scored[:10], scaled to the population.
CandidateLimit == 3
TopMatches == 2

MIN_SCORE == 800

Smit == <<"S", "m", "i", "t">>
smit == <<"s", "m", "i", "t">>
Smyt == <<"S", "m", "y", "t">>
Jon == <<"J", "o", "n">>
Jo == <<"J", "o">>

LastNames == {Smit, smit, Smyt}
FirstNames == {Jon, Jo}

NoName == <<>>

\* Code points of the characters in use.
Ord(c) ==
    CASE c = "J" -> 74 [] c = "S" -> 83 [] c = "i" -> 105 [] c = "j" -> 106
      [] c = "m" -> 109 [] c = "n" -> 110 [] c = "o" -> 111 [] c = "s" -> 115
      [] c = "t" -> 116 [] c = "y" -> 121

LowerChar(c) == CASE c = "J" -> "j" [] c = "S" -> "s" [] OTHER -> c

\* str.lower()
lower(name) == [i \in DOMAIN name |-> LowerChar(name[i])]

\* a < b for str
StrLess(a, b) ==
    \E k \in 1..(Len(a) + 1) :
        /\ \A i \in 1..(k - 1) : i <= Len(b) /\ a[i] = b[i]
        /\ \/ k > Len(a) /\ k <= Len(b)
           \/ k <= Len(a) /\ k <= Len(b) /\ Ord(a[k]) < Ord(b[k])

SetMax(S) == CHOOSE n \in S : \A m \in S : m <= n

RECURSIVE LongestCommonSubsequence(_, _)
LongestCommonSubsequence(a, b) ==
    IF a = <<>> \/ b = <<>> THEN 0
    ELSE IF Head(a) = Head(b)
         THEN 1 + LongestCommonSubsequence(Tail(a), Tail(b))
    ELSE SetMax({LongestCommonSubsequence(Tail(a), b),
                 LongestCommonSubsequence(a, Tail(b))})

\* rapidfuzz fuzz.ratio: normalised indel similarity.
fuzz_ratio(a, b) ==
    (200 * LongestCommonSubsequence(a, b)) \div (Len(a) + Len(b))

\* rapidfuzz fuzz.partial_ratio: the best fuzz.ratio of the shorter string
\* against the windows of the longer one.
fuzz_partial_ratio(a, b) ==
    LET short == IF Len(a) <= Len(b) THEN a ELSE b
        long == IF Len(a) <= Len(b) THEN b ELSE a
        windows == {SubSeq(long, i, j) :
                        i \in 1..Len(long),
                        j \in 1..Len(long)} \ {<<>>}
    IN  SetMax({fuzz_ratio(short, w) :
                   w \in {v \in windows : Len(v) <= Len(short)}})

_name_similarity(a, b) ==
    IF a = <<>> \/ b = <<>> THEN 0 ELSE fuzz_partial_ratio(a, b)

\* The combined score with both names weighted alike.
combined_score_equal_weights(first_name_q, last_name_q, s) ==
    LET last_sim == IF last_name_q # <<>>
                    THEN _name_similarity(last_name_q, s.last_name) ELSE 0
        first_sim == IF first_name_q # <<>>
                     THEN _name_similarity(first_name_q, s.first_name) ELSE 0
    IN  IF first_name_q # <<>> /\ last_name_q # <<>>
        THEN 5 * last_sim + 5 * first_sim
        ELSE IF last_name_q # <<>> THEN 10 * last_sim
        ELSE IF first_name_q # <<>> THEN 10 * first_sim
        ELSE 0

\* The score of one candidate in the loop of student_matches.
combined_score(first_name_q, last_name_q, s) ==
    LET last_sim == IF last_name_q # <<>>
                    THEN _name_similarity(last_name_q, s.last_name) ELSE 0
        first_sim == IF first_name_q # <<>>
                     THEN _name_similarity(first_name_q, s.first_name) ELSE 0
    IN  IF first_name_q # <<>> /\ last_name_q # <<>>
        THEN 6 * last_sim + 4 * first_sim
        ELSE IF last_name_q # <<>> THEN 10 * last_sim
        ELSE IF first_name_q # <<>> THEN 10 * first_sim
        ELSE 0

\* A submitted date string: <<>> when empty, <<year, month, day>> when it
\* has the form YYYY-MM-DD, any other sequence otherwise.
IsLeap(year) ==
    year % 4 = 0 /\ (year % 100 # 0 \/ year % 400 = 0)

DaysInMonth(year, month) ==
    IF month = 2 THEN (IF IsLeap(year) THEN 29 ELSE 28)
    ELSE IF month \in {4, 6, 9, 11} THEN 30 ELSE 31

WellFormedDate(raw) == Len(raw) = 3 /\ \A i \in 1..3 : raw[i] \in Nat

NoneValue == [kind |-> "None"]

\* django.utils.dateparse.parse_date: the date, None when the string has
\* not the form of a date, ValueError when it has the form but names no day
\* of the calendar.
parse_date(raw) ==
    IF ~WellFormedDate(raw) THEN NoneValue
    ELSE IF raw[2] \in 1..12 /\ raw[3] \in 1..DaysInMonth(raw[1], raw[2])
         THEN [kind |-> "date", value |-> raw]
    ELSE [kind |-> "ValueError"]

istartswith(name, c) == name # <<>> /\ LowerChar(name[1]) = LowerChar(c)

\* qs after the filters of student_matches.
matches_queryset(first_name_q, last_name_q, date_of_birth) ==
    {id \in DOMAIN student_rows :
        /\ date_of_birth.kind = "date"
               => student_rows[id].date_of_birth = date_of_birth.value
        /\ last_name_q # <<>>
               => istartswith(student_rows[id].last_name, last_name_q[1])
        /\ first_name_q # <<>>
               => istartswith(student_rows[id].first_name, first_name_q[1])}

\* qs.order_by("last_name", "first_name"): every order of the rows that
\* agrees with the two columns; rows equal in both come in any order.
order_by_last_name_first_name(ids) ==
    LET n == Cardinality(ids)
        Before(x, y) ==
            \/ StrLess(student_rows[x].last_name, student_rows[y].last_name)
            \/ /\ student_rows[x].last_name = student_rows[y].last_name
               /\ StrLess(student_rows[x].first_name,
                          student_rows[y].first_name)
    IN  {p \in [1..n -> ids] :
            /\ \A i \in 1..n, j \in 1..n : i # j => p[i] # p[j]
            /\ \A i \in 1..n, j \in 1..n : i < j => ~Before(p[j], p[i])}

Take(seq, n) == SubSeq(seq, 1, IF Len(seq) < n THEN Len(seq) ELSE n)

\* list.sort(key=lambda x: (-x[0], last_name.lower(), first_name.lower())):
\* a stable sort of the scored pairs.
sort_by_score_and_name(pairs) ==
    LET n == Len(pairs)
        KeyLess(x, y) ==
            \/ x.score > y.score
            \/ /\ x.score = y.score
               /\ \/ StrLess(lower(student_rows[x.id].last_name),
                             lower(student_rows[y.id].last_name))
                  \/ /\ lower(student_rows[x.id].last_name)
                            = lower(student_rows[y.id].last_name)
                     /\ StrLess(lower(student_rows[x.id].first_name),
                                lower(student_rows[y.id].first_name))
        order == CHOOSE p \in [1..n -> 1..n] :
                     /\ \A i \in 1..n, j \in 1..n : i # j => p[i] # p[j]
                     /\ \A i \in 1..n, j \in 1..n :
                            i < j => \/ KeyLess(pairs[p[i]], pairs[p[j]])
                                     \/ /\ ~KeyLess(pairs[p[j]], pairs[p[i]])
                                        /\ p[i] < p[j]
    IN  [i \in 1..n |-> pairs[order[i]]]

\* The results of student_matches for one order of the database rows.
matches_results(first_name_q, last_name_q, ordered) ==
    LET candidates == Take(ordered, CandidateLimit)
        results_scored ==
            [i \in DOMAIN candidates |->
                [id |-> candidates[i],
                 score |-> combined_score(first_name_q, last_name_q,
                                          student_rows[candidates[i]])]]
        strong == SelectSeq(results_scored,
                            LAMBDA item : item.score >= MIN_SCORE)
    IN  [status |-> "ok",
         candidates |-> candidates,
         results |-> Take(sort_by_score_and_name(strong), TopMatches)]

\* student_matches: login_required, then the JSON list of likely matches.
student_matches(users, first_names, last_names, dates) ==
    \E user \in users, first_name_q \in first_names,
       last_name_q \in last_names, dob_raw \in dates :
        /\ request = NoRequest
        /\ request' = [op |-> "student_matches", user |-> user,
                       first_name |-> first_name_q,
                       last_name |-> last_name_q,
                       date_of_birth |-> dob_raw]
        /\ LET date_of_birth == IF dob_raw # <<>> THEN parse_date(dob_raw)
                                ELSE NoneValue
           IN  IF ~is_authenticated(user)
               THEN response' = [status |-> "redirect_login"]
               ELSE IF date_of_birth.kind = "ValueError"
               THEN response' = [status |-> "ValueError"]
               ELSE \E ordered \in order_by_last_name_first_name(
                            matches_queryset(first_name_q, last_name_q,
                                             date_of_birth)) :
                        response' = matches_results(first_name_q, last_name_q,
                                                    ordered)
        /\ UNCHANGED world

Birthdays == {<<2020, 2, 1>>, <<2020, 2, 2>>}

PAGE_SIZE_OPTIONS == {10, 25, 50, 100}

\* request.GET.get("per_page", 25) under int(): the parameter is absent, or
\* text that is no integer (ValueError, caught), or an integer.
per_page_of(raw) ==
    LET per_page == IF raw.kind = "missing" THEN 25
                    ELSE IF raw.kind = "text" THEN 25
                    ELSE raw.value
    IN  IF per_page \notin PAGE_SIZE_OPTIONS THEN 25 ELSE per_page

PerPageParameters ==
    {[kind |-> "missing"], [kind |-> "text", text |-> "ten"]}
        \cup {[kind |-> "int", value |-> n] : n \in {-10, 0, 10, 30, 100, 1000}}

\* student_list: login_required, then the annotated students restricted by
\* filter_students_for_user, paginated by per_page.
student_list(users, per_pages) ==
    \E user \in users, raw \in per_pages :
        /\ request = NoRequest
        /\ request' = [op |-> "student_list", user |-> user, per_page |-> raw]
        /\ response' =
               IF ~is_authenticated(user) THEN [status |-> "redirect_login"]
               ELSE [status |-> "ok",
                     per_page |-> per_page_of(raw),
                     students |->
                         {row.pk : row \in filter_students_for_user(
                                       student_list_queryset(students), user)}]
        /\ UNCHANGED world

StudentRows ==
    {r \in [first_name : FirstNames, last_name : LastNames,
            date_of_birth : Birthdays] :
        \/ r.date_of_birth = <<2020, 2, 1>>
        \/ r.last_name = Smit /\ r.first_name = Jon}

InitMatches ==
    /\ is_superuser = {}
    /\ groups = [u \in Users |-> {"Teachers"}]
    /\ school_staff = Users
    /\ system_user = {}
    /\ assignments = {}
    /\ \E n \in 0..MaxPopulation :
           /\ students = 1..n
           /\ student_rows \in [1..n -> StudentRows]
    /\ enrolments = {}
    /\ today = 1
    /\ nulls_first = TRUE
    /\ auth_group = GroupNames
    /\ in_flight = {}
    /\ mail_threads = {}
    /\ outbox = <<>>
    /\ mail_log = {}
    /\ request = NoRequest
    /\ response = NoResponse

DateStrings ==
    {<<>>, <<"yesterday">>, <<2020, 2, 1>>, <<2020, 2, 30>>, <<2020, 13, 1>>}

NextMatches ==
    \/ student_matches(Callers, {NoName, Jon}, {NoName, Smit}, DateStrings)
    \/ student_list(Callers, PerPageParameters)
    \/ deliver_response

SpecMatches == InitMatches /\ [][NextMatches]_vars


\* 0.6 * last_similarity + 0.4 * first_similarity when both names are
\* supplied, the single available similarity otherwise (in thousandths).
ScoreOf(req, id) ==
    LET last_similarity ==
            _name_similarity(req.last_name, student_rows[id].last_name)
        first_similarity ==
            _name_similarity(req.first_name, student_rows[id].first_name)
    IN  IF req.first_name # <<>> /\ req.last_name # <<>>
        THEN 6 * last_similarity + 4 * first_similarity
        ELSE IF req.last_name # <<>> THEN 10 * last_similarity
        ELSE IF req.first_name # <<>> THEN 10 * first_similarity
        ELSE 0

\* x ranks above y: higher score, then case-insensitive last name, then
\* case-insensitive first name.
RanksAbove(req, x, y) ==
    LET lx == lower(student_rows[x].last_name)
        ly == lower(student_rows[y].last_name)
        fx == lower(student_rows[x].first_name)
        fy == lower(student_rows[y].first_name)
    IN  \/ ScoreOf(req, x) > ScoreOf(req, y)
        \/ /\ ScoreOf(req, x) = ScoreOf(req, y)
           /\ \/ StrLess(lx, ly)
              \/ lx = ly /\ StrLess(fx, fy)

\* C24: student_matches returns at most TopMatches candidates, each with
\* its combined score, which is at least 0.80; they are in descending order
\* of score, then case-insensitive last name, then case-insensitive first
\* name; and no scored candidate that was left out has a score of at least
\* 0.80 and ranks above a returned one.
C24_TopMatchesOrdered ==
    (request.op = "student_matches" /\ response.status = "ok")
        => LET res == response.results
               returned == {res[i].id : i \in DOMAIN res}
           IN  /\ Len(res) <= TopMatches
               /\ Cardinality(returned) = Len(res)
               /\ \A i \in DOMAIN res :
                      /\ res[i].id \in Range(response.candidates)
                      /\ res[i].score = ScoreOf(request, res[i].id)
                      /\ res[i].score >= MIN_SCORE
               /\ \A i \in DOMAIN res, j \in DOMAIN res :
                      i < j => ~RanksAbove(request, res[j].id, res[i].id)
               /\ \A id \in Range(response.candidates) \ returned :
                      ScoreOf(request, id) >= MIN_SCORE
                          => \A r \in returned : ~RanksAbove(request, id, r)

\* Both names were supplied, three scored candidates reach 0.80, the two
\* best are returned in order and the third is left out.
C24_Witness ==
    /\ request.op = "student_matches"
    /\ response.status = "ok"
    /\ request.first_name # <<>>
    /\ request.last_name # <<>>
    /\ Len(response.results) = TopMatches
    /\ response.results[1].score > response.results[2].score
    /\ \E id \in Range(response.candidates) :
           /\ id \notin {response.results[i].id : i \in DOMAIN response.results}
           /\ ScoreOf(request, id) >= MIN_SCORE

\* C25: student_matches is deterministic: for the same inputs and the same
\* students, every invocation returns the same candidates in the same order
\* with the same scores, whatever order the database returns equal rows in.
C25_MatchesDeterministic ==
    (request.op = "student_matches" /\ response.status = "ok")
        => \A ordered \in order_by_last_name_first_name(
                  matches_queryset(request.first_name, request.last_name,
                                   IF request.date_of_birth # <<>>
                                   THEN parse_date(request.date_of_birth)
                                   ELSE NoneValue)) :
               matches_results(request.first_name, request.last_name,
                               ordered).results = response.results


\* A date string that names a day of the calendar.
ValidDateString(raw) ==
    /\ WellFormedDate(raw)
    /\ raw[2] \in 1..12
    /\ raw[3] \in 1..DaysInMonth(raw[1], raw[2])

\* C26: malformed filter input never raises: student_matches given a
\* date_of_birth that is no valid date (wrong form, or month 13, or day 30 of
\* February) completes and answers as it would without a birth date, and
\* student_list given a per_page that is no integer or none of 10, 25, 50,
\* 100 uses 25.
C26_MalformedInputSanitised ==
    /\ (/\ request.op = "student_matches"
        /\ is_authenticated(request.user)
        /\ request.date_of_birth # <<>>
        /\ ~ValidDateString(request.date_of_birth))
           => /\ response.status = "ok"
              /\ \E ordered \in order_by_last_name_first_name(
                        matches_queryset(request.first_name,
                                         request.last_name, NoneValue)) :
                     response.results
                         = matches_results(request.first_name,
                                           request.last_name, ordered).results
    /\ (/\ request.op = "student_list"
        /\ response.status = "ok"
        /\ \/ request.per_page.kind # "int"
           \/ request.per_page.value \notin {10, 25, 50, 100})
           => response.per_page = 25


\* C27: list and detail agree for students: for a school-scoped user who is
\* no superuser, Admin or System Staff, a student of the student_list query
\* passes filter_students_for_user exactly when can_view_student holds for
\* that user and student.
C27_ListAgreesWithDetail ==
    (/\ request.op = "filter_students_for_user"
     /\ request.user \in Users
     /\ request.user \notin is_superuser
     /\ ~is_admin(request.user)
     /\ ~is_system_staff(request.user)
     /\ groups[request.user] \cap SchoolScopedGroups # {})
        => \A row \in request.qs :
               row \in response.value
                   <=> can_view_student(request.user, row.pk)


\* C28: student capabilities are nested for every user and student in
\* every state: can_delete_student implies can_edit_student, which implies
\* can_view_student and can_create_student.
C28_CapabilitiesNested ==
    \A user \in Visitors, student \in students :
        /\ can_delete_student(user, student) => can_edit_student(user, student)
        /\ can_edit_student(user, student) => can_view_student(user, student)
        /\ can_edit_student(user, student) => can_create_student(user)

\* A school-scoped user may edit a student without being allowed to delete
\* it, and an administrator may delete it.
C28_Witness ==
    \E student \in students, user \in Users, admin \in Users :
        /\ can_edit_student(user, student)
        /\ ~can_delete_student(user, student)
        /\ user \notin is_superuser
        /\ ~is_admin(user)
        /\ can_delete_student(admin, student)


\* C29: a creator is never locked out of what they just created: right
\* after student_new succeeded for a user, can_view_student and
\* can_edit_student hold for that user and the new student.
C29_CreatorKeepsAccess ==
    (request.op = "student_new"
     /\ response.status = "redirect_student_detail")
        => /\ response.student \in students
           /\ can_view_student(request.user, response.student)
           /\ can_edit_student(request.user, response.student)

\* A user who is neither superuser nor administrator created a student at
\* one of their schools.
C29_Witness ==
    /\ request.op = "student_new"
    /\ response.status = "redirect_student_detail"
    /\ request.user \notin is_superuser
    /\ ~is_admin(request.user)
    /\ request.school \in get_user_schools(request.user)


\* ------------------------------------------------------------------------
\* migrate_legacy_groups (core/management/commands/migrate_legacy_groups.py)
\* ------------------------------------------------------------------------

LEGACY_TO_NEW ==
    [legacy \in {"InclusiveEd - Admins", "InclusiveEd - School Admins",
                 "InclusiveEd - School Staff", "InclusiveEd - Teachers",
                 "InclusiveEd - System Admins", "InclusiveEd - System Staff"}
        |-> CASE legacy = "InclusiveEd - Admins" -> "Admins"
              [] legacy = "InclusiveEd - School Admins" -> "School Admins"
              [] legacy = "InclusiveEd - School Staff" -> "School Staff"
              [] legacy = "InclusiveEd - Teachers" -> "Teachers"
              [] legacy = "InclusiveEd - System Admins" -> "System Admins"
              [] legacy = "InclusiveEd - System Staff" -> "System Staff"]

\* Command.handle: for every legacy group that exists, the new group is
\* fetched or created; with --commit its users are moved to the new group
\* and the legacy group is deleted.
migrate_legacy_groups(commits) ==
    \E commit \in commits :
        /\ request = NoRequest
        /\ request' = [op |-> "migrate_legacy_groups", commit |-> commit]
        /\ LET found == DOMAIN LEGACY_TO_NEW \cap auth_group
               created == {LEGACY_TO_NEW[legacy] : legacy \in found}
           IN  /\ auth_group' = IF commit
                                THEN (auth_group \cup created) \ found
                                ELSE auth_group \cup created
               /\ groups' =
                      IF commit
                      THEN [u \in Users |->
                               (groups[u] \ found)
                                   \cup {LEGACY_TO_NEW[legacy] :
                                            legacy \in groups[u] \cap found}]
                      ELSE groups
               /\ response' = [status |-> "done",
                               groups_deleted |->
                                   IF commit THEN Cardinality(found) ELSE 0]
        /\ UNCHANGED <<is_superuser, school_staff, system_user, assignments,
                       students, enrolments, today, nulls_first, student_rows,
                       in_flight, mail_threads, outbox, mail_log>>

MigrationGroups ==
    {"InclusiveEd - Admins", "InclusiveEd - Teachers", "Admins", "Teachers"}

InitMigrate ==
    /\ is_superuser = {}
    /\ auth_group \in SUBSET MigrationGroups
    /\ groups \in [Users -> SUBSET auth_group]
    /\ school_staff = Users
    /\ system_user = {}
    /\ assignments = {}
    /\ students = {}
    /\ enrolments = {}
    /\ today = 1
    /\ nulls_first = TRUE
    /\ student_rows = <<>>
    /\ in_flight = {}
    /\ mail_threads = {}
    /\ outbox = <<>>
    /\ mail_log = {}
    /\ request = NoRequest
    /\ response = NoResponse

NextMigrate ==
    \/ migrate_legacy_groups(BOOLEAN)
    \/ deliver_response

SpecMigrate == InitMigrate /\ [][NextMigrate]_vars

\* C30: migrate_legacy_groups without --commit changes nothing: the set of
\* groups and every user's memberships are the same before and after; with
\* --commit every user of a legacy group is afterwards in the corresponding
\* new group and no legacy group exists any more.
C30_DryRunChangesNothing ==
    [][(request'.op = "migrate_legacy_groups" /\ request' # request)
       => /\ ~request'.commit
                 => /\ auth_group' = auth_group
                    /\ groups' = groups
          /\ request'.commit
                 => /\ auth_group' \cap DOMAIN LEGACY_TO_NEW = {}
                    /\ \A u \in Users :
                           \A legacy \in groups[u] \cap DOMAIN LEGACY_TO_NEW :
                               /\ LEGACY_TO_NEW[legacy] \in groups'[u]
                               /\ LEGACY_TO_NEW[legacy] \in auth_group']_vars

====
